---- MODULE Spec2Model ----
(***************************************************************************)
(* A model of the Meta schema-validation and node-wrapping engine          *)
(* (src/schema.py, src/schema_validator.py, src/helpers.py,                *)
(* src/meta_base.py, src/meta_core.py).                                    *)
(*                                                                         *)
(* Python objects are records [k |-> kind, v |-> payload]; the kind tells  *)
(* how the payload is read.  Exceptions are records of kind "Err".         *)
(***************************************************************************)
EXTENDS Integers, Sequences, FiniteSets, TLC

(***************************************************************************)
(* The interpreter the program runs under.  typing.Any is a class from     *)
(* Python 3.11 on (isinstance(Any, type) holds) and a special form before; *)
(* the iteration order of a set follows the hashes of this process.  Both  *)
(* are fixed when the process starts.                                      *)
(***************************************************************************)
VARIABLES anyIsClass, hashSeed

\* a call of a function or method of the program, by its name and with its
\* arguments in order (defined once every function is)
RECURSIVE Invoke(_, _)

(***************************************************************************)
(* Python objects                                                          *)
(***************************************************************************)
PyNone == [k |-> "none", v |-> 0]
PyBool(b) == [k |-> "bool", v |-> b]
PyInt(n) == [k |-> "int", v |-> n]
\* a float is held as its number of halves: PyFloat(3) is 1.5
PyFloat(h) == [k |-> "float", v |-> h]
\* a text is the sequence of its characters
PyStr(s) == [k |-> "str", v |-> s]
PyList(s) == [k |-> "list", v |-> s]
PyTuple(s) == [k |-> "tuple", v |-> s]
PySet(S) == [k |-> "set", v |-> S]
\* a dict is the sequence of its <<key, value>> entries, in insertion order
PyDict(s) == [k |-> "dict", v |-> s]
\* classes: int, str, bool, float, NoneType, dict, list, set, tuple
Type(n) == [k |-> "type", v |-> n]
AnyT == [k |-> "Any", v |-> 0]
Ell == [k |-> "Ellipsis", v |-> 0]
\* typing generics: get_origin is the kind, get_args the payload
TDict(K, V) == [k |-> "Dict", v |-> <<K, V>>]
TList(T) == [k |-> "List", v |-> <<T>>]
TSet(T) == [k |-> "Set", v |-> <<T>>]
TTuple(s) == [k |-> "Tuple", v |-> s]
TUnion(s) == [k |-> "Union", v |-> s]
\* a raised exception; v is the class, m tells the message apart
Err(c, m) == [k |-> "Err", m |-> m, v |-> c]
IsErr(x) == x.k = "Err"
Ok == [k |-> "ok", v |-> 0]

TInt == Type("int")
TStr == Type("str")
TBool == Type("bool")
TFloat == Type("float")
TNoneType == Type("NoneType")

MetaKinds == {"MetaInt", "MetaStr", "MetaFloat", "MetaBool", "MetaNone",
              "MetaDict", "MetaList", "MetaSet", "MetaTuple"}
IsMeta(x) == x.k \in MetaKinds

Range(s) == {s[i] : i \in DOMAIN s}

\* a wrapped node: its Meta class, its contents, its schema and validator
\* attributes
MkNode(kind, payload, schema, validator) ==
    [k |-> kind, schema |-> schema, v |-> payload, validator |-> validator]

RECURSIVE to_native(_)
Native(x) == IF IsMeta(x) THEN to_native(x) ELSE x
to_native(self) ==
    CASE self.k = "MetaDict" ->
            PyDict([i \in DOMAIN self.v |-> <<Native(self.v[i][1]), Native(self.v[i][2])>>])
      [] self.k = "MetaSet" -> PySet({Native(c) : c \in self.v})
      [] self.k = "MetaList" -> PyList([i \in DOMAIN self.v |-> Native(self.v[i])])
      [] self.k = "MetaTuple" -> PyTuple([i \in DOMAIN self.v |-> Native(self.v[i])])
      [] self.k = "MetaInt" -> PyInt(self.v)
      [] self.k = "MetaStr" -> PyStr(self.v)
      [] self.k = "MetaFloat" -> PyFloat(self.v)
      [] self.k = "MetaBool" -> PyBool(self.v)
      [] self.k = "MetaNone" -> PyNone


\* the built-in class a Meta class derives from (MetaBool derives from int,
\* MetaNone from no built-in)
BaseKind(x) ==
    CASE x.k = "MetaInt" -> "int"
      [] x.k = "MetaStr" -> "str"
      [] x.k = "MetaFloat" -> "float"
      [] x.k = "MetaBool" -> "int"
      [] x.k = "MetaNone" -> "object"
      [] x.k = "MetaDict" -> "dict"
      [] x.k = "MetaList" -> "list"
      [] x.k = "MetaSet" -> "set"
      [] x.k = "MetaTuple" -> "tuple"
      [] OTHER -> x.k

\* isinstance(x, t) for a class t (t.k = "type")
IsInstance(x, t) ==
    LET b == BaseKind(x) IN
    CASE t.v = "int" -> b \in {"int", "bool"}
      [] t.v = "NoneType" -> b = "none"
      [] t.v = "object" -> TRUE
      [] t.v = "type" -> b = "type"
      [] OTHER -> b = t.v

IsNumeric(x) == x.k \in {"int", "bool", "float"}
\* a number in halves, so that 1 == 1.0 == True
NumVal(x) ==
    CASE x.k = "int" -> 2 * x.v
      [] x.k = "bool" -> IF x.v THEN 2 ELSE 0
      [] x.k = "float" -> x.v

\* a == b; a node compares as its native value
RECURSIVE NativeEq(_, _)
NativeEq(a, b) ==
    IF IsNumeric(a) /\ IsNumeric(b) THEN NumVal(a) = NumVal(b)
    ELSE IF a.k # b.k THEN FALSE
    ELSE IF a.k \in {"tuple", "list"} THEN
        /\ Len(a.v) = Len(b.v)
        /\ \A i \in DOMAIN a.v : NativeEq(a.v[i], b.v[i])
    ELSE a = b
PyEq(a, b) == NativeEq(Native(a), Native(b))

\* bool(x) of the objects a schema can be
Truthy(x) ==
    CASE x.k = "none" -> FALSE
      [] x.k = "bool" -> x.v
      [] x.k \in {"int", "float"} -> x.v # 0
      [] x.k \in {"str", "list", "tuple", "dict"} -> Len(x.v) > 0
      [] x.k = "set" -> x.v # {}
      [] OTHER -> TRUE

\* dict primitives on the entry sequence
DictHas(d, key) == \E i \in DOMAIN d.v : PyEq(d.v[i][1], key)
DictIdx(d, key) == CHOOSE i \in DOMAIN d.v : PyEq(d.v[i][1], key)
DictGet(d, key) == d.v[DictIdx(d, key)][2]
\* d[key] = val: an existing key keeps its place and its key object
DictSet(d, key, val) ==
    IF DictHas(d, key)
    THEN [d EXCEPT !.v[DictIdx(d, key)] = <<d.v[DictIdx(d, key)][1], val>>]
    ELSE [d EXCEPT !.v = Append(d.v, <<key, val>>)]
SeqRemoveAt(s, i) == SubSeq(s, 1, i - 1) \o SubSeq(s, i + 1, Len(s))
DictDel(d, key) ==
    IF DictHas(d, key) THEN [d EXCEPT !.v = SeqRemoveAt(d.v, DictIdx(d, key))] ELSE d

(***************************************************************************)
(* Text                                                                    *)
(***************************************************************************)
Digits == {"0", "1", "2", "3", "4", "5", "6", "7", "8", "9"}
DigitVal(c) ==
    CASE c = "0" -> 0 [] c = "1" -> 1 [] c = "2" -> 2 [] c = "3" -> 3
      [] c = "4" -> 4 [] c = "5" -> 5 [] c = "6" -> 6 [] c = "7" -> 7
      [] c = "8" -> 8 [] c = "9" -> 9
\* str.isnumeric() / str.isdigit(): every character a digit, and one at least
IsDigits(s) == Len(s) > 0 /\ \A i \in DOMAIN s : s[i] \in Digits
RECURSIVE DigitsVal(_)
DigitsVal(s) ==
    IF Len(s) = 0 THEN 0
    ELSE 10 * DigitsVal(SubSeq(s, 1, Len(s) - 1)) + DigitVal(s[Len(s)])


\* str(n) for an integer
RECURSIVE NatToChars(_)
NatToChars(n) ==
    LET d == CHOOSE c \in Digits : DigitVal(c) = n % 10 IN
    IF n < 10 THEN <<d>> ELSE Append(NatToChars(n \div 10), d)
IntToChars(n) == IF n < 0 THEN <<"-">> \o NatToChars(-n) ELSE NatToChars(n)
\* the texts of the model are over the digits, the letters a b x, "-" and
\* ".", with at most one digit after a "."
SignedDigits(s) == IsDigits(s) \/ (Len(s) > 1 /\ s[1] = "-" /\ IsDigits(Tail(s)))
SignedVal(s) == IF s[1] = "-" THEN -DigitsVal(Tail(s)) ELSE DigitsVal(s)
IsDecimal(s) ==
    /\ Len(s) > 2
    /\ s[Len(s) - 1] = "."
    /\ s[Len(s)] \in {"0", "5"}
    /\ SignedDigits(SubSeq(s, 1, Len(s) - 2))
DecimalHalves(s) ==
    LET w == SubSeq(s, 1, Len(s) - 2)
        f == IF s[Len(s)] = "5" THEN 1 ELSE 0
    IN IF w[1] = "-" THEN -(2 * DigitsVal(Tail(w)) + f) ELSE 2 * DigitsVal(w) + f

\* int(x), float(x), str(x), bool(x) of a scalar
PyIntOf(x) ==
    CASE x.k = "int" -> x
      [] x.k = "bool" -> PyInt(IF x.v THEN 1 ELSE 0)
      [] x.k = "float" -> PyInt(IF x.v >= 0 THEN x.v \div 2 ELSE -((-x.v) \div 2))
      [] x.k = "str" -> IF SignedDigits(x.v) THEN PyInt(SignedVal(x.v))
                        ELSE Err("ValueError", "literal")
      [] OTHER -> Err("TypeError", "argument")
PyFloatOf(x) ==
    CASE x.k \in {"int", "bool", "float"} -> PyFloat(NumVal(x))
      [] x.k = "str" -> IF SignedDigits(x.v) THEN PyFloat(2 * SignedVal(x.v))
                        ELSE IF IsDecimal(x.v) THEN PyFloat(DecimalHalves(x.v))
                        ELSE Err("ValueError", "literal")
      [] OTHER -> Err("TypeError", "argument")
PyStrOf(x) ==
    CASE x.k = "str" -> x
      [] x.k = "int" -> PyStr(IntToChars(x.v))
      [] x.k = "bool" -> PyStr(IF x.v THEN <<"T", "r", "u", "e">>
                                      ELSE <<"F", "a", "l", "s", "e">>)
      [] x.k = "none" -> PyStr(<<"N", "o", "n", "e">>)
      [] x.k = "float" ->
            LET w == IF x.v >= 0 THEN x.v \div 2 ELSE -((-x.v) \div 2)
                neg == IF x.v < 0 /\ w = 0 THEN <<"-">> ELSE <<>>
            IN PyStr(neg \o IntToChars(w) \o <<".", IF x.v % 2 = 0 THEN "0" ELSE "5">>)
      [] OTHER -> Err("TypeError", "unmodelled")
\* tp(x): the constructor call of a class or typing form
Construct(tp, x) ==
    IF tp.k # "type" THEN Err("TypeError", "not callable")
    ELSE CASE tp.v = "int" -> PyIntOf(x)
           [] tp.v = "float" -> PyFloatOf(x)
           [] tp.v = "str" -> PyStrOf(x)
           [] tp.v = "bool" -> PyBool(Truthy(x))
           [] OTHER -> Err("TypeError", "argument")

\* isinstance(x, t) where t is whatever the schema holds there: a class, a
\* tuple of classes, or something isinstance refuses
RECURSIVE IsInstanceOf(_, _)
RECURSIVE AnyInstance(_, _, _)
\* any(isinstance(x, t) for t in ts), from position i
AnyInstance(x, ts, i) ==
    IF i > Len(ts) THEN PyBool(FALSE)
    ELSE LET r == IsInstanceOf(x, ts[i]) IN
         IF IsErr(r) \/ r.v THEN r ELSE AnyInstance(x, ts, i + 1)
IsInstanceOf(x, t) ==
    CASE t.k = "type" -> PyBool(IsInstance(x, t))
      [] t.k = "tuple" -> AnyInstance(x, t.v, 1)
      [] OTHER -> Err("TypeError", "isinstance arg 2")

\* hashable: what a set may hold and a dict may be keyed by
RECURSIVE Hashable(_)
Hashable(x) ==
    CASE x.k \in {"list", "dict", "set", "MetaList", "MetaDict", "MetaSet",
                  "MetaTuple", "MetaNone"} -> FALSE
      [] x.k = "tuple" -> \A i \in DOMAIN x.v : Hashable(x.v[i])
      [] OTHER -> TRUE

\* the first exception of a sequence of results, if any
HasErr(s) == \E i \in DOMAIN s : IsErr(s[i])
FirstErr(s) == s[CHOOSE i \in DOMAIN s : IsErr(s[i]) /\ \A j \in 1..(i - 1) : ~IsErr(s[j])]

\* sorted(types, key=name): the classes of a set in the order of their names
TypeRank(n) ==
    CASE n = "NoneType" -> 0 [] n = "bool" -> 1 [] n = "dict" -> 2
      [] n = "float" -> 3 [] n = "int" -> 4 [] n = "list" -> 5
      [] n = "set" -> 6 [] n = "str" -> 7 [] n = "tuple" -> 8
RECURSIVE SortTypes(_)
SortTypes(S) ==
    IF S = {} THEN <<>>
    ELSE LET m == CHOOSE t \in S : \A u \in S : TypeRank(t.v) <= TypeRank(u.v)
         IN <<m>> \o SortTypes(S \ {m})

(***************************************************************************)
(* src/helpers.py                                                          *)
(***************************************************************************)
get_default_from_type(tp) ==
    CASE tp.k = "tuple" -> IF Len(tp.v) = 0 THEN Err("IndexError", "tuple index")
                           ELSE Invoke("get_default_from_type", <<tp.v[1]>>)
      [] tp.k = "set" -> PySet({})
      [] tp.k = "list" -> PyList(<<>>)
      [] tp.k = "dict" -> PyDict(<<>>)
      [] tp.k = "type" ->
            CASE tp.v = "int" -> PyInt(0)
              [] tp.v = "float" -> PyFloat(0)
              [] tp.v = "str" -> PyStr(<<>>)
              [] tp.v = "bool" -> PyBool(FALSE)
              [] tp.v = "dict" -> PyDict(<<>>)
              [] tp.v = "list" -> PyList(<<>>)
              [] tp.v = "set" -> PySet({})
              [] tp.v = "tuple" -> PyTuple(<<>>)
              [] OTHER -> PyNone
      [] OTHER -> PyNone

\* key_type(key) with no exception handler around it
construct_key(key, key_type) == Invoke("Construct", <<key_type, key>>)
coerce_key_to_type(key, key_type) ==
    LET r == Invoke("Construct", <<key_type, key>>) IN IF IsErr(r) THEN key ELSE r

(***************************************************************************)
(* src/schema.py                                                           *)
(***************************************************************************)
\* the loop of fill_missing_keys from the i-th field of the schema on; the
\* result is data as the in-place updates leave it
FillFrom(data, schema, i) ==
    IF i > Len(schema.v) THEN data
    ELSE LET key == schema.v[i][1]
             expected_type == schema.v[i][2]
         IN IF key.k = "type" THEN Invoke("FillFrom", <<data, schema, i + 1>>)
            ELSE IF ~DictHas(data, key) \/ DictGet(data, key).k = "none" THEN
                LET dflt == Invoke("get_default_from_type", <<expected_type>>) IN
                IF IsErr(dflt) THEN dflt
                ELSE Invoke("FillFrom", <<DictSet(data, key, dflt), schema, i + 1>>)
            ELSE IF DictGet(data, key).k = "dict" /\ expected_type.k = "dict" THEN
                LET sub == Invoke("fill_missing_keys", <<DictGet(data, key), expected_type>>) IN
                IF IsErr(sub) THEN sub
                ELSE Invoke("FillFrom", <<DictSet(data, key, sub), schema, i + 1>>)
            ELSE Invoke("FillFrom", <<data, schema, i + 1>>)
fill_missing_keys(data, schema) == Invoke("FillFrom", <<data, schema, 1>>)


\* the normalized members of a sequence of schema expressions
NormalizeAll(s) == [i \in DOMAIN s |-> Invoke("_normalize_schema", <<s[i]>>)]
\* a set display of the members; a member that cannot be hashed raises
SetOfMembers(ms) ==
    IF HasErr(ms) THEN FirstErr(ms)
    ELSE IF \E i \in DOMAIN ms : ~Hashable(ms[i]) THEN Err("TypeError", "unhashable")
    ELSE PySet(Range(ms))
\* tuple(sorted(norm_key, key=name)) of a set of classes
SortedKeyTuple(S) ==
    IF \E t \in S : t.k # "type" THEN Err("AttributeError", "name")
    ELSE PyTuple(SortTypes(S))
\* the loop over the fields of an explicit map, from field i, into out
FieldKey(nk) ==
    LET norm_key == IF ~IsErr(nk) /\ nk.k = "set" THEN SortedKeyTuple(nk.v) ELSE nk IN
    IF IsErr(norm_key) THEN norm_key
    ELSE IF norm_key.k = "tuple" /\ Len(norm_key.v) > 1 THEN norm_key
    ELSE IF norm_key.k # "tuple" THEN norm_key
    ELSE IF Len(norm_key.v) = 0 THEN Err("IndexError", "tuple index")
    ELSE norm_key.v[1]
PutField(schema, i, out, key, val) ==
    IF IsErr(key) THEN key
    ELSE IF IsErr(val) THEN val
    ELSE IF ~Hashable(key) THEN Err("TypeError", "unhashable")
    ELSE Invoke("NormalizeFields", <<schema, i + 1, DictSet(out, key, val)>>)
NormalizeFields(schema, i, out) ==
    IF i > Len(schema.v) THEN out
    ELSE PutField(schema, i, out,
                  FieldKey(Invoke("_normalize_schema", <<schema.v[i][1]>>)),
                  Invoke("_normalize_schema", <<schema.v[i][2]>>))
_normalize_schema(schema) ==
    CASE schema.k = "Union" ->
            SetOfMembers(Invoke("NormalizeAll", <<SelectSeq(schema.v, LAMBDA a : a # TNoneType)>>))
      [] schema.k = "Dict" ->
            LET key_type == IF Len(schema.v) = 2 THEN schema.v[1] ELSE AnyT
                val_type == IF Len(schema.v) = 2 THEN schema.v[2] ELSE AnyT
                norm_key == Invoke("_normalize_schema", <<key_type>>)
                norm_val == Invoke("_normalize_schema", <<val_type>>)
                key_tuple == IF ~IsErr(norm_key) /\ norm_key.k = "set"
                             THEN SortedKeyTuple(norm_key.v) ELSE norm_key
            IN IF IsErr(norm_key) THEN norm_key
               ELSE IF IsErr(norm_val) THEN norm_val
               ELSE IF IsErr(key_tuple) THEN key_tuple
               ELSE IF ~Hashable(key_tuple) THEN Err("TypeError", "unhashable")
               ELSE PyDict(<< <<key_tuple, norm_val>> >>)
      [] schema.k = "List" ->
            LET item == Invoke("_normalize_schema", <<IF Len(schema.v) > 0 THEN schema.v[1] ELSE AnyT>>)
            IN IF IsErr(item) THEN item ELSE PyList(<<item>>)
      [] schema.k = "Set" ->
            SetOfMembers(<<Invoke("_normalize_schema", <<IF Len(schema.v) > 0 THEN schema.v[1] ELSE AnyT>>)>>)
      [] schema.k = "Tuple" ->
            IF Len(schema.v) > 0 /\ schema.v[Len(schema.v)] = Ell THEN
                LET item == Invoke("_normalize_schema", <<schema.v[1]>>) IN
                IF IsErr(item) THEN item ELSE PyTuple(<<item, Ell>>)
            ELSE LET items == Invoke("NormalizeAll", <<schema.v>>) IN
                 IF HasErr(items) THEN FirstErr(items) ELSE PyTuple(items)
      [] schema.k = "dict" -> Invoke("NormalizeFields", <<schema, 1, PyDict(<<>>)>>)
      [] OTHER -> schema

\* a Schema instance: its normalized schema, its _validate flag and its
\* validator class.  The validate keyword is "yes", "no", or "default" when
\* it is not given.
SchemaObj(schema, validate, vcls) ==
    [k |-> "Schema", v |-> schema, validate |-> validate, vcls |-> vcls]
DefaultValidate(schema) ==
    \/ schema.k \in {"dict", "list", "tuple", "set", "bool", "str", "int"}
SchemaInit(raw_schema, validate, validator_cls) ==
    LET schema == IF Truthy(raw_schema) THEN Invoke("_normalize_schema", <<raw_schema>>) ELSE PyNone IN
    IF IsErr(schema) THEN schema
    ELSE SchemaObj(schema,
                   IF validate = "default" THEN DefaultValidate(schema) ELSE validate = "yes",
                   IF Truthy(schema) THEN validator_cls ELSE "NoOpValidator")
\* Schema(raw_schema) with no keyword
Schema(raw_schema) == Invoke("SchemaInit", <<raw_schema, "default", "SchemaValidator">>)
ensure(value) == IF value.k = "Schema" THEN value ELSE Invoke("Schema", <<value>>)

\* list(schema) of a list or set schema.  A set of one member has one order;
\* the members of a larger set come in the order of SetOrder.
RECURSIVE SetSeq(_)
SetSeq(S) ==
    IF S = {} THEN <<>>
    ELSE LET m == CHOOSE t \in S : TRUE IN <<m>> \o SetSeq(S \ {m})
Reverse(s) == [i \in DOMAIN s |-> s[Len(s) + 1 - i]]
SetOrder(S) == IF hashSeed THEN Reverse(SetSeq(S)) ELSE SetSeq(S)
AsList(schema) == IF schema.k = "set" THEN SetOrder(schema.v) ELSE schema.v

\* the loop of resolve_from over the key-patterns of an explicit map, from
\* field i: the field descriptor of the first pattern key is an instance of,
\* None when there is none
MatchKeyType(schema, key, i) ==
    IF i > Len(schema.v) THEN PyNone
    ELSE LET k_type == schema.v[i][1]
             v_type == schema.v[i][2]
         IN IF k_type.k = "tuple" THEN
                LET r == AnyInstance(key, k_type.v, 1) IN
                IF IsErr(r) THEN r
                ELSE IF r.v THEN v_type
                ELSE Invoke("MatchKeyType", <<schema, key, i + 1>>)
            ELSE IF k_type.k = "type" /\ IsInstance(key, k_type) THEN v_type
            ELSE Invoke("MatchKeyType", <<schema, key, i + 1>>)

\* a Python index into a sequence of length n: its place from 1, 0 when out
\* of range
PyIndex(i, n) == IF 0 <= i /\ i < n THEN i + 1 ELSE IF -n <= i /\ i < 0 THEN n + i + 1 ELSE 0

SubSchema(self, sub_schema_raw) ==
    LET sub == IF sub_schema_raw.k = "none" THEN AnyT ELSE sub_schema_raw
    IN IF IsErr(sub) THEN sub
       ELSE IF sub.k = "Schema" THEN sub
       ELSE Invoke("SchemaInit", <<sub, IF self.validate THEN "yes" ELSE "no", self.vcls>>)
resolve_from(self, key, level) ==
    LET schema == self.v IN
    SubSchema(self,
        IF schema.k = "dict" THEN
            IF DictHas(schema, key) THEN DictGet(schema, key)
            ELSE Invoke("MatchKeyType", <<schema, key, 1>>)
        ELSE IF schema.k \in {"list", "set"} /\ IsInstance(key, TInt) THEN
            LET items == AsList(schema)
                at == PyIndex(NumVal(key) \div 2, Len(items))
            IN IF at = 0 THEN PyNone ELSE items[at]
        ELSE IF schema.k = "tuple" THEN
            IF Len(schema.v) = 0 THEN Err("IndexError", "tuple index")
            ELSE IF schema.v[Len(schema.v)] = Ell THEN schema.v[1]
            ELSE IF 0 <= level /\ level < Len(schema.v) THEN schema.v[level + 1]
            ELSE PyNone
        ELSE PyNone)

coerce_key(self, key) ==
    IF self.v.k = "Dict" /\ Len(self.v.v) = 2 THEN
        LET r == Invoke("Construct", <<self.v.v[1], key>>) IN
        IF IsErr(r) /\ r.v \in {"ValueError", "TypeError"} THEN key ELSE r
    ELSE key

\* the validator build_validator returns: a validator object, or the
\* exception of calling NoOpValidator with an argument
NoOp == [k |-> "NoOpValidator", v |-> PyNone]
Validator(schema) == [k |-> "SchemaValidator", v |-> schema]
build_validator(self) ==
    IF ~self.validate THEN NoOp
    ELSE IF self.vcls = "NoOpValidator" THEN Err("TypeError", "takes no arguments")
    ELSE Validator(self.v)


(***************************************************************************)
(* Nodes (src/meta_core.py, src/meta_base.py)                              *)
(***************************************************************************)
\* what iterating x yields, in order; an exception when x is not iterable
IsIterable(x) ==
    x.k \in {"list", "tuple", "MetaList", "MetaTuple", "set", "MetaSet", "dict",
             "MetaDict", "str", "MetaStr"}
Iterate(x) ==
    CASE x.k \in {"list", "tuple", "MetaList", "MetaTuple"} -> x.v
      [] x.k \in {"set", "MetaSet"} -> SetOrder(x.v)
      [] x.k \in {"dict", "MetaDict"} -> [i \in DOMAIN x.v |-> x.v[i][1]]
      [] x.k \in {"str", "MetaStr"} -> [i \in DOMAIN x.v |-> PyStr(<<x.v[i]>>)]
      [] OTHER -> Err("TypeError", "not iterable")
AllOk(rs) == IF HasErr(rs) THEN FirstErr(rs) ELSE Ok

(***************************************************************************)
(* src/helpers.py: is_type_match, resolve_schema_key                       *)
(***************************************************************************)
\* all(...) and any(...) over results computed in order: the first exception
\* or deciding value ends the iteration
AllM(rs) ==
    IF \E i \in DOMAIN rs : IsErr(rs[i]) \/ ~rs[i].v
    THEN rs[CHOOSE i \in DOMAIN rs : /\ IsErr(rs[i]) \/ ~rs[i].v
                                     /\ \A j \in 1..(i - 1) : ~IsErr(rs[j]) /\ rs[j].v]
    ELSE PyBool(TRUE)
AnyM(rs) ==
    IF \E i \in DOMAIN rs : IsErr(rs[i]) \/ rs[i].v
    THEN rs[CHOOSE i \in DOMAIN rs : /\ IsErr(rs[i]) \/ rs[i].v
                                     /\ \A j \in 1..(i - 1) : ~IsErr(rs[j]) /\ ~rs[j].v]
    ELSE PyBool(FALSE)

\* the result is a bool, or the exception isinstance raises
is_type_match(val, expected_type) ==
    LET value == Native(val)
        args == expected_type.v
    IN CASE expected_type.k = "Union" ->
                AnyM([i \in DOMAIN args |-> Invoke("is_type_match", <<value, args[i]>>)])
         [] expected_type.k \in {"List", "Set"} ->
                IF value.k # (IF expected_type.k = "List" THEN "list" ELSE "set")
                THEN PyBool(FALSE)
                ELSE LET item_type == IF Len(args) > 0 THEN args[1] ELSE AnyT
                         items == Iterate(value)
                     IN AllM([i \in DOMAIN items |-> Invoke("is_type_match", <<items[i], item_type>>)])
         [] expected_type.k = "Dict" ->
                IF value.k # "dict" THEN PyBool(FALSE)
                ELSE LET key_type == IF Len(args) = 2 THEN args[1] ELSE AnyT
                         val_type == IF Len(args) = 2 THEN args[2] ELSE AnyT
                         each(e) == LET rk == Invoke("is_type_match", <<e[1], key_type>>) IN
                                    IF IsErr(rk) \/ ~rk.v THEN rk
                                    ELSE Invoke("is_type_match", <<e[2], val_type>>)
                     IN AllM([i \in DOMAIN value.v |-> each(value.v[i])])
         [] expected_type.k = "Tuple" ->
                IF value.k # "tuple" THEN PyBool(FALSE)
                ELSE IF Len(args) > 0 /\ args[Len(args)] = Ell
                THEN AllM([i \in DOMAIN value.v |-> Invoke("is_type_match", <<value.v[i], args[1]>>)])
                ELSE IF Len(args) # Len(value.v) THEN PyBool(FALSE)
                ELSE AllM([i \in DOMAIN value.v |-> Invoke("is_type_match", <<value.v[i], args[i]>>)])
         [] expected_type.k = "type" -> PyBool(IsInstance(value, expected_type))
         [] expected_type.k = "Any" /\ anyIsClass -> IsInstanceOf(value, expected_type)
         [] OTHER -> PyBool(TRUE)

resolve_schema_key(key, schema) ==
    IF schema.k = "none" THEN PyNone
    ELSE IF schema.k = "Dict" /\ Len(schema.v) = 2 THEN schema.v[2]
    ELSE IF schema.k = "dict" THEN
        IF DictHas(schema, key) THEN DictGet(schema, key)
        ELSE IF \E i \in DOMAIN schema.v :
                    schema.v[i][1].k = "type" /\ IsInstance(key, schema.v[i][1])
        THEN schema.v[CHOOSE i \in DOMAIN schema.v :
                    /\ schema.v[i][1].k = "type" /\ IsInstance(key, schema.v[i][1])
                    /\ \A j \in 1..(i - 1) :
                          ~(schema.v[j][1].k = "type" /\ IsInstance(key, schema.v[j][1]))][2]
        ELSE PyNone
    ELSE PyNone

(***************************************************************************)
(* src/schema_validator.py                                                 *)
(***************************************************************************)
is_union(tp) == tp.k = "Union"
Mismatch == Err("TypeError", "mismatch")
KeyNotAllowed == Err("TypeError", "key not allowed")
ArityMismatch == Err("TypeError", "arity")
NoBranchMatched == Err("TypeError", "no branch")
\* an exception that "except TypeError" catches
IsTypeError(r) == IsErr(r) /\ r.v = "TypeError"

CheckNative(value, expected_type) ==
    IF expected_type.k = "tuple" THEN
        LET r == AnyInstance(value, expected_type.v, 1) IN
        IF IsErr(r) THEN r ELSE IF r.v THEN Ok ELSE Mismatch
    ELSE IF expected_type.k = "set" /\ Cardinality(expected_type.v) = 1 THEN
        LET inner_type == CHOOSE t \in expected_type.v : TRUE
            items == Iterate(value)
        IN IF value.k # "set" THEN Mismatch
           ELSE AllOk([i \in DOMAIN items |-> Invoke("type_check", <<items[i], inner_type>>)])
    ELSE IF expected_type.k = "list" /\ Len(expected_type.v) = 1 THEN
        IF value.k # "list" THEN Mismatch
        ELSE AllOk([i \in DOMAIN value.v |-> Invoke("type_check", <<value.v[i], expected_type.v[1]>>)])
    ELSE IF expected_type.k = "dict" /\ Len(expected_type.v) = 1 THEN
        LET key_type == expected_type.v[1][1]
            val_type == expected_type.v[1][2]
            each(e) == LET rk == Invoke("type_check", <<e[1], key_type>>) IN
                       IF IsErr(rk) THEN rk ELSE Invoke("type_check", <<e[2], val_type>>)
        IN IF value.k # "dict" THEN Mismatch
           ELSE AllOk([i \in DOMAIN value.v |-> each(value.v[i])])
    ELSE LET r == Invoke("is_type_match", <<value, expected_type>>) IN
         IF IsErr(r) THEN r ELSE IF r.v THEN Ok ELSE Mismatch
type_check(val, expected_type) ==
    IF expected_type.k \in {"none", "Any"} THEN Ok
    ELSE CheckNative(Native(val), expected_type)

\* the key loop of validate_all: every key of data is a declared key or an
\* instance of a declared key type
KeyAllowed(expected_type, key, i) ==
    IF i > Len(expected_type.v) THEN KeyNotAllowed
    ELSE LET allowed_key_type == expected_type.v[i][1] IN
         IF allowed_key_type.k = "tuple" THEN
            LET r == AnyInstance(key, allowed_key_type.v, 1) IN
            IF IsErr(r) THEN r
            ELSE IF r.v THEN Ok
            ELSE Invoke("KeyAllowed", <<expected_type, key, i + 1>>)
         ELSE IF allowed_key_type.k = "type" /\ IsInstance(key, allowed_key_type) THEN Ok
         ELSE Invoke("KeyAllowed", <<expected_type, key, i + 1>>)
KeysAllowed(expected_type, data) ==
    AllOk([i \in DOMAIN data.v |->
             IF DictHas(expected_type, data.v[i][1]) THEN Ok
             ELSE Invoke("KeyAllowed", <<expected_type, data.v[i][1], 1>>)])

RECURSIVE FirstValid(_, _, _)

\* "empty containers match their container type"
EmptyMatch(arg, value) ==
    \/ arg.k = "Dict" /\ IsInstance(value, Type("dict")) /\ Len(value.v) = 0
    \/ arg.k = "List" /\ IsInstance(value, Type("list")) /\ Len(value.v) = 0
    \/ arg.k = "Set" /\ IsInstance(value, Type("set")) /\ value.v = {}

\* the inner loop of the first pass: the first branch, from j on, against
\* which validate_all raises nothing; an exception other than TypeError
\* leaves the loop; None when no branch is left
FirstValid(value, args, j) ==
    IF j > Len(args) THEN PyNone
    ELSE LET r == Invoke("validate_all", <<args[j], value>>) IN
         IF ~IsErr(r) THEN args[j]
         ELSE IF IsTypeError(r) THEN FirstValid(value, args, j + 1)
         ELSE r
UnionPass1(value, args, i) ==
    IF i > Len(args) THEN PyNone
    ELSE IF EmptyMatch(args[i], value) THEN args[i]
    ELSE LET f == FirstValid(value, args, 1) IN
         IF IsErr(f) THEN f
         ELSE IF f.k # "none" THEN f
         ELSE Invoke("UnionPass1", <<value, args, i + 1>>)
UnionPass2(value, args, i) ==
    IF i > Len(args) THEN NoBranchMatched
    ELSE IF EmptyMatch(args[i], value) THEN args[i]
    ELSE LET r == Invoke("validate_all", <<args[i], value>>) IN
         IF ~IsErr(r) THEN args[i]
         ELSE IF IsTypeError(r) THEN Invoke("UnionPass2", <<value, args, i + 1>>)
         ELSE r
resolve_union_branch(value, union_type) ==
    IF ~is_union(union_type) THEN union_type
    ELSE LET p1 == Invoke("UnionPass1", <<value, union_type.v, 1>>) IN
         IF p1.k # "none" THEN p1 ELSE Invoke("UnionPass2", <<value, union_type.v, 1>>)

_validate_native(data, expected) ==
    LET expected_type == IF is_union(expected) THEN Invoke("resolve_union_branch", <<data, expected>>)
                         ELSE expected
    IN IF IsErr(expected_type) THEN expected_type
       ELSE IF expected_type.k = "Dict" THEN
            IF Len(expected_type.v) # 2 THEN Err("ValueError", "unpack")
            ELSE IF data.k \notin {"dict", "MetaDict"} THEN Err("AttributeError", "items")
            ELSE LET each(e) == LET rk == Invoke("type_check", <<e[1], expected_type.v[1]>>) IN
                                IF IsErr(rk) THEN rk
                                ELSE Invoke("_validate_native", <<e[2], expected_type.v[2]>>)
                 IN AllOk([i \in DOMAIN data.v |-> each(data.v[i])])
       ELSE IF expected_type.k \in {"List", "Set"} THEN
            LET items == Iterate(data) IN
            IF Len(expected_type.v) # 1 THEN Err("ValueError", "unpack")
            ELSE IF ~IsIterable(data) THEN items
            ELSE AllOk([i \in DOMAIN items |-> Invoke("_validate_native", <<items[i], expected_type.v[1]>>)])
       ELSE Invoke("type_check", <<data, expected_type>>)

\* the text of a key path: no key of a schema equals it
KeyPath == PyStr(<<"$">>)

\* self is the schema the validator holds.  validate_scalar and
\* validate_container return the type they checked against.
validate_scalar(self, value, expected_type) ==
    LET matched_type == IF is_union(expected_type)
                        THEN Invoke("resolve_union_branch", <<value, expected_type>>)
                        ELSE expected_type
        r == Invoke("type_check", <<value, matched_type>>)
    IN IF IsErr(matched_type) THEN matched_type
       ELSE IF IsErr(r) THEN r ELSE matched_type

validate_tuple(self, value, expected_type) ==
    IF ~IsInstance(value, Type("tuple")) THEN Err("TypeError", "expected tuple")
    ELSE LET args == expected_type.v IN
         IF Len(args) > 0 /\ args[Len(args)] = Ell THEN
            AllOk([i \in DOMAIN value.v |->
                     Invoke("validate_recursive", <<self, KeyPath, value.v[i], args[1]>>)])
         ELSE IF Len(args) # Len(value.v) THEN ArityMismatch
         ELSE AllOk([i \in DOMAIN value.v |->
                     Invoke("validate_recursive", <<self, KeyPath, value.v[i], args[i]>>)])

validate_container(self, value, expected_type) ==
    IF expected_type.k = "none" THEN PyNone
    ELSE LET tc == Invoke("type_check", <<value, expected_type>>)
             items == Iterate(value)
             key_type == IF Len(expected_type.v) = 2 THEN expected_type.v[1] ELSE PyNone
             val_type == IF Len(expected_type.v) = 2 THEN expected_type.v[2] ELSE PyNone
             each(e) ==
                LET rk == Invoke("validate_recursive", <<self, KeyPath, e[1], key_type>>) IN
                IF IsErr(rk) THEN rk
                ELSE Invoke("validate_recursive", <<self, KeyPath, e[2], val_type>>)
             r == IF expected_type.k \in {"List", "Tuple", "Set"} THEN
                     IF Len(expected_type.v) # 1 THEN Err("ValueError", "unpack")
                     ELSE AllOk([i \in DOMAIN items |->
                              Invoke("validate_recursive", <<self, KeyPath, items[i], expected_type.v[1]>>)])
                  ELSE IF expected_type.k = "Dict" THEN
                     AllOk([i \in DOMAIN value.v |-> each(value.v[i])])
                  ELSE Ok
         IN IF IsErr(tc) THEN tc
            ELSE IF IsErr(r) THEN r ELSE expected_type

\* key_path is used as a key of the validator's own schema when no expected
\* type is given
validate_recursive(self, key_path, value, expected) ==
    LET expected_type == IF expected.k = "none" THEN Invoke("resolve_schema_key", <<key_path, self>>)
                         ELSE expected
    IN IF expected_type.k \in {"List", "Set", "Dict", "list", "set", "dict"}
       THEN Invoke("validate_container", <<self, value, expected_type>>)
       ELSE IF expected_type.k = "Tuple" THEN Invoke("validate_tuple", <<self, value, expected_type>>)
       ELSE Invoke("validate_scalar", <<self, value, expected_type>>)

validate_all(self, data) ==
    IF self.k = "none" THEN Ok
    ELSE LET keys == IF self.k = "dict" /\ IsInstance(data, Type("dict"))
                     THEN Invoke("KeysAllowed", <<self, data>>) ELSE Ok
         IN IF IsErr(keys) THEN keys
            ELSE IF IsMeta(data) THEN Invoke("validate_recursive", <<self, KeyPath, data, self>>)
            ELSE Invoke("_validate_native", <<data, self>>)

\* validator.validate_all(data) and validator.type_check(value, expected)
\* of a validator object: the no-op validator checks nothing
ValidatorValidateAll(validator, data) ==
    IF validator.k = "NoOpValidator" THEN Ok ELSE Invoke("validate_all", <<validator.v, data>>)
ValidatorTypeCheck(validator, value, expected_type) ==
    IF validator.k = "NoOpValidator" THEN Ok ELSE Invoke("type_check", <<value, expected_type>>)

(***************************************************************************)
(* src/meta_core.py, src/meta_base.py: the node classes                    *)
(***************************************************************************)
\* get_args of whatever x is: the arguments of a typing generic, () otherwise
get_args(x) == IF x.k \in {"Dict", "List", "Set", "Tuple", "Union"} THEN x.v ELSE <<>>

\* coerce_key, the inner function of coerce_dict_keys
CoerceDictKey(key_type, k) ==
    IF key_type = TInt /\ IsInstance(k, TStr) /\ IsDigits(k.v) THEN PyInt(DigitsVal(k.v))
    ELSE IF key_type = TFloat /\ IsInstance(k, TStr) THEN
        LET f == PyFloatOf(PyStr(k.v)) IN IF IsErr(f) THEN k ELSE f
    ELSE k
CoerceEntries(data, schema, i, coerced) ==
    IF i > Len(data.v) THEN coerced
    ELSE LET k == data.v[i][1]
             v == data.v[i][2]
             coerced_k == Invoke("CoerceDictKey", <<schema.v[1], k>>)
             coerced_v == IF IsInstance(v, Type("dict"))
                          THEN Invoke("coerce_dict_keys", <<v, schema.v[2]>>) ELSE v
         IN Invoke("CoerceEntries", <<data, schema, i + 1, DictSet(coerced, coerced_k, coerced_v)>>)
\* the coerce_dict_keys of meta_core.py, which wrap_meta_structure and
\* update call: it acts on a typing Dict[K, V] only
coerce_dict_keys(data, schema) ==
    IF schema.k = "Dict" /\ Len(schema.v) = 2
    THEN Invoke("CoerceEntries", <<data, schema, 1, PyDict(<<>>)>>)
    ELSE data

_coerce_key_type(self, key) ==
    IF self.schema.k = "Dict" THEN
        IF Len(self.schema.v) # 2 THEN Err("ValueError", "unpack")
        ELSE LET expected_key_type == self.schema.v[1] IN
             IF expected_key_type = TInt /\ IsInstance(key, TStr) /\ IsDigits(key.v)
             THEN PyInt(DigitsVal(key.v))
             ELSE IF expected_key_type = TFloat /\ IsInstance(key, TStr) THEN
                LET f == PyFloatOf(PyStr(key.v)) IN IF IsErr(f) THEN key ELSE f
             ELSE IF expected_key_type = TBool
                     /\ key \in {PyStr(<<"T", "r", "u", "e">>), PyStr(<<"F", "a", "l", "s", "e">>)}
             THEN PyBool(key = PyStr(<<"T", "r", "u", "e">>))
             ELSE key
    ELSE key

\* the sub-schema of a node for a key: a raw schema, or None
resolve_schema(self, key0, value) ==
    LET key == Invoke("_coerce_key_type", <<self, key0>>)
        schema_base == IF self.schema.k = "Schema" THEN self.schema.v ELSE self.schema
    IN IF IsErr(key) THEN key
       ELSE IF schema_base.k = "dict" THEN
            IF ~Hashable(key) THEN Err("TypeError", "unhashable")
            ELSE IF DictHas(schema_base, key) THEN DictGet(schema_base, key)
            ELSE Invoke("MatchKeyType", <<schema_base, key, 1>>)
       ELSE IF schema_base.k = "Dict" THEN
            IF Len(schema_base.v) # 2 THEN Err("ValueError", "unpack")
            ELSE schema_base.v[2]
       ELSE PyNone

\* hash(x) raises for a node whose __hash__ returns its native value when
\* that is no integer (containers, MetaNone), and for unhashable builtins
HashErr(x) ==
    IF x.k \in {"MetaDict", "MetaList", "MetaSet", "MetaTuple", "MetaNone"}
    THEN Err("TypeError", "hash")
    ELSE IF ~Hashable(x) THEN Err("TypeError", "unhashable")
    ELSE Ok
\* set.add(S, x): x joins S unless a member equals it
SetHas(S, x) == \E y \in S : PyEq(Native(y), Native(x))
SetAdd(S, x) == IF SetHas(S, x) THEN S ELSE S \cup {x}

\* MetaStr(value, schema=schema), MetaInt(...), MetaFloat(...): __new__ of
\* MetaScalar, then MetaNodeMixin.__init__
MetaScalar(kind, value, schema) ==
    IF schema.k # "Schema" THEN Err("AssertionError", "Expected Schema instance")
    ELSE LET validator == Invoke("build_validator", <<schema>>)
             tc == ValidatorTypeCheck(validator, value, schema.v)
             instance == MkNode(kind, value.v, schema, Validator(schema))
             va == Invoke("validate_all", <<schema, instance>>)
         IN IF IsErr(validator) THEN validator
            ELSE IF IsErr(tc) THEN tc
            ELSE IF IsErr(va) THEN Err("TypeError", "ValidationError")
            ELSE instance

\* MetaBool(value, schema=schema)
MetaBoolNew(value, schema) ==
    LET tc == IF schema.k = "none" THEN Ok ELSE Invoke("type_check", <<value, schema>>) IN
    IF IsErr(tc) THEN tc
    ELSE MkNode("MetaBool", Truthy(value), schema, Validator(schema))

\* MetaNone(value, schema=schema): __new__ leaves the schema attribute None
\* and __init__ keeps the attribute it finds
MetaNoneNew(value, schema) == MkNode("MetaNone", 0, PyNone, Validator(PyNone))

\* the outcome of a method of a container node: the node as the call leaves
\* it, and what the call returned (Ok for self or None) or raised
Res(self, r) == [k |-> "Res", self |-> self, v |-> r]


\* list.insert(s, k, x)
ListInsert(s, k, x) ==
    LET n == Len(s)
        at == IF k < 0 THEN (IF k + n < 0 THEN 0 ELSE k + n) ELSE IF k > n THEN n ELSE k
    IN SubSeq(s, 1, at) \o <<x>> \o SubSeq(s, at + 1, n)
\* the integer an int, bool or MetaInt index stands for
IndexVal(k) == IF BaseKind(k) = "bool" \/ k.k = "MetaBool" THEN (IF k.v THEN 1 ELSE 0) ELSE k.v

_pull_args(self, args) ==
    IF Len(args) = 0 THEN Err("ValueError", "No arguments")
    ELSE IF self.k = "MetaSet" THEN PyTuple(<<PyNone, args[1]>>)
    ELSE IF self.k = "MetaList" THEN
        IF Len(args) = 1 THEN PyTuple(<<PyNone, args[1]>>)
        ELSE IF Len(args) = 2 THEN PyTuple(<<args[1], args[2]>>)
        ELSE Err("ValueError", "Too many arguments")
    ELSE IF self.k = "MetaDict" THEN
        IF Len(args) = 1 /\ IsInstance(args[1], Type("dict")) THEN PyTuple(<<args[1], PyNone>>)
        ELSE IF Len(args) = 2 THEN PyTuple(<<args[1], args[2]>>)
        ELSE Err("ValueError", "Invalid number of arguments")
    ELSE Err("NotImplementedError", "_pull_args")

\* self[key] = value
__setitem__(self, key, value) ==
    LET rs == Invoke("resolve_schema", <<self, key, value>>)
        resolved == IF IsErr(rs) THEN rs ELSE Invoke("ensure", <<rs>>)
        wrapped == IF IsErr(resolved) THEN resolved
                   ELSE IF IsMeta(value) THEN value
                   ELSE Invoke("wrap_meta_structure", <<value, resolved>>)
    IN IF self.k = "MetaSet" THEN Res(self, Err("TypeError", "setitem not supported"))
       ELSE IF IsErr(wrapped) THEN Res(self, wrapped)
       ELSE IF self.k = "MetaDict" THEN
            LET args == get_args(self.schema)
                kt == IF self.schema.k = "Dict" /\ Len(args) >= 1
                      THEN IsInstanceOf(key, args[1]) ELSE PyBool(TRUE)
            IN IF IsErr(kt) THEN Res(self, kt)
               ELSE IF ~kt.v THEN Res(self, Err("TypeError", "Invalid key type"))
               ELSE IF ~Hashable(key) THEN Res(self, Err("TypeError", "unhashable"))
               ELSE Res(DictSet(self, key, wrapped), Ok)
       ELSE LET tagged == IF IsMeta(wrapped)
                          THEN [wrapped EXCEPT !.schema = resolved,
                                               !.validator = Validator(resolved)]
                          ELSE wrapped
                at == IF BaseKind(key) \in {"int", "bool"}
                      THEN PyIndex(IndexVal(key), Len(self.v)) ELSE 0
            IN IF self.k = "MetaTuple" THEN Res(self, Ok)
               ELSE IF BaseKind(key) \notin {"int", "bool"}
               THEN Res(self, Err("TypeError", "list indices"))
               ELSE IF at = 0 THEN Res(self, Err("IndexError", "list assignment"))
               ELSE Res([self EXCEPT !.v[at] = tagged], Ok)

\* x in self, by MetaContainer.__contains__
Contains(self, item) ==
    IF self.k = "MetaDict" THEN \E i \in DOMAIN self.v : PyEq(Native(self.v[i][1]), item)
    ELSE IF self.k = "MetaList" THEN \E i \in DOMAIN self.v : PyEq(item, Native(self.v[i]))
    ELSE IF self.k = "MetaSet" THEN \E y \in self.v : PyEq(item, Native(y))
    ELSE FALSE

\* what add returns: the new child when it is a container node, else self
AddReturn(val) == IF val.k \in {"MetaDict", "MetaList", "MetaSet"} THEN val ELSE Ok

\* the loop of add over the items of an iterable, on a set node
AddEach(self, items, i) ==
    IF i > Len(items) THEN Res(self, Ok)
    ELSE LET resolved == Invoke("resolve_schema", <<self, items[i], items[i]>>)
             wrapped == IF IsErr(resolved) THEN resolved
                        ELSE Invoke("wrap_meta_structure", <<items[i], resolved>>)
             h == IF IsErr(wrapped) THEN wrapped ELSE HashErr(wrapped)
         IN IF IsErr(h) THEN Res(self, h)
            ELSE Invoke("AddEach", <<[self EXCEPT !.v = SetAdd(self.v, wrapped)], items, i + 1>>)

WrappedFor(self, k, v) ==
    LET rs == Invoke("resolve_schema", <<self, k, v>>)
        resolved == IF IsErr(rs) THEN rs ELSE Invoke("ensure", <<rs>>)
    IN IF IsErr(resolved) THEN resolved ELSE Invoke("wrap_meta_structure", <<v, resolved>>)
\* the key of an entry as it is given
GivenKey(k0) == k0
\* the key add stores an entry under: a text of digits as the integer it spells
DigitKey(k0) ==
    IF IsInstance(k0, TStr) /\ IsDigits(k0.v) THEN PyInt(DigitsVal(k0.v)) ELSE k0
AddToDict(self, k, val) ==
    IF IsErr(val) THEN Res(self, val)
    ELSE IF ~Hashable(k) THEN Res(self, Err("TypeError", "unhashable"))
    ELSE Res(DictSet(self, k, val), AddReturn(val))
AddToList(self, args, k0, val) ==
    LET existing == \E i \in DOMAIN self.v : PyEq(Native(self.v[i]), Native(val))
        found == \E i \in DOMAIN self.v : PyEq(Native(self.v[i]), Native(k0))
        idx == CHOOSE i \in DOMAIN self.v :
                  /\ PyEq(Native(self.v[i]), Native(k0))
                  /\ \A j \in 1..(i - 1) : ~PyEq(Native(self.v[j]), Native(k0))
    IN IF IsErr(val) THEN Res(self, val)
       ELSE IF Len(args) = 1 THEN
            Res([self EXCEPT !.v = Append(self.v, val)], AddReturn(val))
       ELSE IF BaseKind(k0) \in {"int", "bool"} THEN
            Res([self EXCEPT !.v = ListInsert(self.v, IndexVal(k0), val)], AddReturn(val))
       ELSE IF k0.k # "none" /\ Invoke("Contains", <<self, k0>>) THEN
            IF ~existing /\ found
            THEN Res([self EXCEPT !.v = ListInsert(self.v, idx - 1, val)], AddReturn(val))
            ELSE Res(self, AddReturn(val))
       ELSE Res([self EXCEPT !.v = Append(self.v, val)], AddReturn(val))
add(self, args) ==
    LET kv == Invoke("_pull_args", <<self, args>>)
        k0 == kv.v[1]
        v == kv.v[2]
    IN IF IsErr(kv) THEN Res(self, kv)
       ELSE IF self.k = "MetaDict" THEN
            AddToDict(self, DigitKey(k0), WrappedFor(self, DigitKey(k0), v))
       ELSE IF self.k = "MetaList" THEN
            AddToList(self, args, k0, WrappedFor(self, k0, v))
       ELSE LET val == args[1]
                iterable == BaseKind(val) \in {"list", "tuple", "set"}
                single == Invoke("AddEach", <<self, <<val>>, 1>>)
            IN IF iterable THEN
                    LET r == Invoke("AddEach", <<self, Iterate(val), 1>>) IN
                    IF IsErr(r.v) THEN r ELSE Res(r.self, AddReturn(val))
               ELSE IF IsErr(single.v) THEN single
               ELSE Res(single.self, AddReturn(val))

\* the loops of MetaContainer.__init__ over data, from its i-th entry; the
\* sub-schema it resolves is always a Schema instance
DictInit(self, data, i) ==
    IF i > Len(data.v) THEN self
    ELSE LET k == data.v[i][1]
             v == data.v[i][2]
             coerced_k == Invoke("_coerce_key_type", <<self, k>>)
             rs == IF IsErr(coerced_k) THEN coerced_k ELSE Invoke("resolve_schema", <<self, coerced_k, v>>)
             resolved == IF IsErr(rs) THEN rs ELSE Invoke("ensure", <<rs>>)
             wrapped == IF IsErr(resolved) THEN resolved
                        ELSE IF IsMeta(v) THEN v
                        ELSE Invoke("wrap_meta_structure", <<v, resolved>>)
             r == Invoke("__setitem__", <<self, coerced_k, wrapped>>)
         IN IF IsErr(wrapped) THEN wrapped
            ELSE IF IsErr(r.v) THEN r.v
            ELSE Invoke("DictInit", <<r.self, data, i + 1>>)
ListInit(self, data, i) ==
    IF i > Len(data) THEN self
    ELSE LET item == data[i]
             vr == Invoke("validate_recursive", <<self.validator.v, PyNone, item, PyNone>>)
             resolved_schema == IF IsErr(vr) THEN vr ELSE Invoke("ensure", <<vr>>)
             wrapped == IF IsErr(resolved_schema) THEN resolved_schema
                        ELSE IF IsMeta(item) THEN item
                        ELSE Invoke("wrap_meta_structure", <<item, resolved_schema>>)
         IN IF IsErr(wrapped) THEN wrapped
            ELSE Invoke("ListInit", <<[self EXCEPT !.v = Append(self.v, wrapped)], data, i + 1>>)
SetInit(self, data, i) ==
    IF i > Len(data) THEN self
    ELSE LET item == data[i]
             resolved_schema == Invoke("validate_recursive", <<self.validator.v, PyNone, item, PyNone>>)
             ens == IF IsErr(resolved_schema) THEN resolved_schema ELSE Invoke("ensure", <<resolved_schema>>)
             wrapped == IF IsErr(resolved_schema) THEN resolved_schema
                        ELSE IF IsMeta(item) THEN item
                        ELSE IF IsErr(ens) THEN ens
                        ELSE Invoke("wrap_meta_structure", <<item, ens>>)
             r == Invoke("add", <<self, <<wrapped>>>>)
         IN IF IsErr(wrapped) THEN wrapped
            ELSE IF IsErr(r.v) THEN r.v
            ELSE Invoke("SetInit", <<r.self, data, i + 1>>)

\* the items MetaTuple.__new__ keeps: zip(data, args) stops at the shorter
TupleItems(data, args) ==
    LET n == IF Len(args) > 0 /\ args[Len(args)] = Ell THEN Len(data)
             ELSE IF Len(args) < Len(data) THEN Len(args) ELSE Len(data)
        s(i) == IF Len(args) > 0 /\ args[Len(args)] = Ell THEN args[1] ELSE args[i]
        each(i) == IF IsMeta(data[i]) THEN data[i]
                   ELSE LET e == Invoke("ensure", <<s(i)>>) IN
                        IF IsErr(e) THEN e ELSE Invoke("wrap_meta_structure", <<data[i], e>>)
    IN [i \in 1..n |-> each(i)]

\* MetaDict(data, schema=schema), MetaList(...), MetaSet(...), MetaTuple(...):
\* __new__ then __init__
MetaContainer(kind, data, schema) ==
    IF schema.k # "Schema" THEN Err("AssertionError", "Expected Schema instance")
    ELSE IF kind = "MetaTuple" THEN
        LET items == Invoke("TupleItems", <<Iterate(data), get_args(schema)>>)
            validator == Invoke("build_validator", <<schema>>)
        IN IF HasErr(items) THEN FirstErr(items)
           ELSE IF IsErr(validator) THEN validator
           ELSE MkNode("MetaTuple", items, schema, Validator(schema))
    ELSE LET self == MkNode(kind, IF kind = "MetaSet" THEN {} ELSE <<>>, schema,
                            Validator(schema))
         IN IF kind = "MetaDict" /\ IsInstance(data, Type("dict")) THEN Invoke("DictInit", <<self, data, 1>>)
            ELSE IF kind = "MetaList" /\ IsInstance(data, Type("list"))
            THEN Invoke("ListInit", <<self, data.v, 1>>)
            ELSE IF kind = "MetaSet" /\ IsInstance(data, Type("set"))
            THEN Invoke("SetInit", <<self, SetOrder(data.v), 1>>)
            ELSE Err("TypeError", "Unsupported init")

\* the loop of wrap_meta_structure over the entries of a dict
WrapEntries(raw_data, schema_obj, i, wrapped) ==
    IF i > Len(raw_data.v) THEN wrapped
    ELSE LET k == raw_data.v[i][1]
             v == raw_data.v[i][2]
             coerced_k == Invoke("coerce_key", <<schema_obj, k>>)
             sub_schema == IF IsErr(coerced_k) THEN coerced_k
                           ELSE Invoke("resolve_from", <<schema_obj, coerced_k, 0>>)
             w == IF IsErr(sub_schema) THEN sub_schema ELSE Invoke("wrap_meta_structure", <<v, sub_schema>>)
         IN IF IsErr(w) THEN w
            ELSE Invoke("WrapEntries", <<raw_data, schema_obj, i + 1, DictSet(wrapped, coerced_k, w)>>)

\* set(container_data): the items are hashed in order
SetOf(items, i, S) ==
    IF i > Len(items) THEN PySet(S)
    ELSE IF IsErr(HashErr(items[i])) THEN HashErr(items[i])
    ELSE Invoke("SetOf", <<items, i + 1, SetAdd(S, items[i])>>)

\* the end of each branch of wrap_meta_structure: the node is validated by
\* the validator its schema builds
Validated(node, schema_obj) ==
    LET validator == Invoke("build_validator", <<schema_obj>>)
        va == ValidatorValidateAll(validator, node)
    IN IF IsErr(node) THEN node
       ELSE IF IsErr(validator) THEN validator
       ELSE IF IsErr(va) THEN va
       ELSE node

\* wrap_meta_structure(data, schema) with no keyword argument
wrap_meta_structure(data, schema) ==
    IF IsMeta(data) THEN
        IF schema.k = "none" THEN data
        ELSE LET s == Invoke("ensure", <<schema>>) IN
             IF IsErr(s) THEN s ELSE [data EXCEPT !.schema = s]
    ELSE LET schema_obj == Invoke("ensure", <<schema>>) IN
    IF IsErr(schema_obj) THEN schema_obj
    ELSE IF data.k = "bool" THEN Invoke("Validated", <<Invoke("MetaBoolNew", <<data, schema_obj>>), schema_obj>>)
    ELSE IF data.k = "int" THEN Invoke("Validated", <<Invoke("MetaScalar", <<"MetaInt", data, schema_obj>>), schema_obj>>)
    ELSE IF data.k = "float" THEN Invoke("Validated", <<Invoke("MetaScalar", <<"MetaFloat", data, schema_obj>>), schema_obj>>)
    ELSE IF data.k = "str" THEN Invoke("Validated", <<Invoke("MetaScalar", <<"MetaStr", data, schema_obj>>), schema_obj>>)
    ELSE IF data.k = "dict" THEN
        LET raw_data == Invoke("coerce_dict_keys", <<data, schema_obj.v>>)
            wrapped == Invoke("WrapEntries", <<raw_data, schema_obj, 1, PyDict(<<>>)>>)
        IN IF IsErr(wrapped) THEN wrapped
           ELSE Invoke("Validated", <<Invoke("MetaContainer", <<"MetaDict", wrapped, schema_obj>>), schema_obj>>)
    ELSE IF data.k \in {"list", "tuple", "set"} THEN
        LET sub_schema == Invoke("resolve_from", <<schema_obj, PyNone, 0>>)
            items == Iterate(data)
            container_data == [i \in DOMAIN items |-> Invoke("wrap_meta_structure", <<items[i], sub_schema>>)]
            as_set == Invoke("SetOf", <<container_data, 1, {}>>)
        IN IF IsErr(sub_schema) THEN sub_schema
           ELSE IF HasErr(container_data) THEN FirstErr(container_data)
           ELSE IF data.k = "list"
           THEN Invoke("Validated", <<Invoke("MetaContainer", <<"MetaList", PyList(container_data), schema_obj>>), schema_obj>>)
           ELSE IF data.k = "tuple"
           THEN Invoke("Validated", <<Invoke("MetaContainer", <<"MetaTuple", PyList(container_data), schema_obj>>), schema_obj>>)
           ELSE IF IsErr(as_set) THEN as_set
           ELSE Invoke("Validated", <<Invoke("MetaContainer", <<"MetaSet", as_set, schema_obj>>), schema_obj>>)
    ELSE IF data.k = "none" THEN Invoke("Validated", <<MetaNoneNew(data, schema_obj), schema_obj>>)
    ELSE Err("TypeError", "Unsupported type")

\* for v in items: self.add(None, v)
AddAll(self, items, i) ==
    IF i > Len(items) THEN Res(self, Ok)
    ELSE LET r == Invoke("add", <<self, <<PyNone, items[i]>>>>) IN
         IF IsErr(r.v) THEN r ELSE Invoke("AddAll", <<r.self, items, i + 1>>)

\* the loop of update over the entries of a dict, inside its try block
UpdateEntries(self, other, i) ==
    IF i > Len(other.v) THEN Res(self, Ok)
    ELSE LET k == other.v[i][1]
             v == other.v[i][2]
             rs == Invoke("resolve_schema", <<self, k, v>>)
             resolved == IF IsErr(rs) THEN rs ELSE Invoke("ensure", <<rs>>)
             wrapped == IF IsErr(resolved) THEN resolved ELSE Invoke("wrap_meta_structure", <<v, resolved>>)
             args == get_args(self.schema.v)
             kt == IF self.schema.v.k # "Dict" THEN PyBool(TRUE)
                   ELSE IF Len(args) # 2 THEN Err("ValueError", "unpack")
                   ELSE IsInstanceOf(k, args[1])
         IN IF IsErr(wrapped) THEN Res(self, wrapped)
            ELSE IF IsErr(kt) THEN Res(self, kt)
            ELSE IF ~kt.v THEN Res(self, Err("TypeError", "Invalid key type"))
            ELSE IF ~Hashable(k) THEN Res(self, Err("TypeError", "unhashable"))
            ELSE Invoke("UpdateEntries", <<DictSet(self, k, wrapped), other, i + 1>>)

update(self, args) ==
    LET kv == Invoke("_pull_args", <<self, args>>)
        other0 == kv.v[1]
    IN IF IsErr(kv) THEN Res(self, kv)
       ELSE IF self.k = "MetaDict" THEN
            IF ~IsInstance(other0, Type("dict")) THEN Res(self, Err("TypeError", "Expected dict-like"))
            ELSE IF self.schema.k # "Schema" THEN Res(self, Err("AttributeError", "schema"))
            ELSE LET other == IF self.schema.v.k = "Dict"
                              THEN Invoke("coerce_dict_keys", <<other0, self.schema.v>>) ELSE other0
                     r == Invoke("UpdateEntries", <<self, other, 1>>)
                 IN IF IsErr(r.v) THEN Res(r.self, Err("Exception", r.v.m)) ELSE r
       ELSE IF ~IsIterable(other0) THEN Res(self, Err("TypeError", "not iterable"))
       ELSE Invoke("AddAll", <<self, Iterate(other0), 1>>)

\* self.set(*args, replace=replace)
set(self, args, replace) ==
    LET kv == Invoke("_pull_args", <<self, args>>)
        other == kv.v[1]
        v == kv.v[2]
        rs == Invoke("resolve_schema", <<self, other, v>>)
        resolved == IF IsErr(rs) THEN rs ELSE Invoke("ensure", <<rs>>)
        wrapped == IF IsErr(resolved) THEN resolved ELSE Invoke("wrap_meta_structure", <<v, resolved>>)
        stored == Invoke("__setitem__", <<self, other, wrapped>>)
        new_items == args[1]
    IN IF Len(args) = 0 THEN Res(self, Err("ValueError", "No Arguments"))
       ELSE IF IsErr(kv) THEN Res(self, kv)
       ELSE IF Len(args) = 1 /\ IsInstance(other, Type("dict")) THEN
            Invoke("update", <<IF replace THEN [self EXCEPT !.v = <<>>] ELSE self, <<other>>>>)
       ELSE IF Len(args) = 2 THEN
            IF IsErr(wrapped) THEN Res(self, wrapped) ELSE stored
       ELSE IF self.k = "MetaList" THEN
            Invoke("AddAll", <<self, IF IsIterable(new_items) THEN Iterate(new_items) ELSE <<new_items>>, 1>>)
       ELSE Invoke("update", <<self, <<IF IsIterable(other) THEN other ELSE PyList(<<other>>)>>>>)

\* item == key as list.remove compares: MetaBool compares truth values
ElemEq(item, key) == IF item.k = "MetaBool" THEN item.v = Truthy(key) ELSE PyEq(item, key)

\* remove never raises and returns self
remove(self, key) ==
    IF self.k = "MetaDict" THEN
        Res(IF Hashable(key) THEN DictDel(self, key) ELSE self, Ok)
    ELSE IF self.k = "MetaList" THEN
        IF BaseKind(key) \in {"int", "bool"} THEN
            LET at == PyIndex(IndexVal(key), Len(self.v)) IN
            Res(IF at = 0 THEN self ELSE [self EXCEPT !.v = SeqRemoveAt(self.v, at)], Ok)
        ELSE IF \E i \in DOMAIN self.v : ElemEq(self.v[i], key) THEN
            LET at == CHOOSE i \in DOMAIN self.v :
                        /\ ElemEq(self.v[i], key)
                        /\ \A j \in 1..(i - 1) : ~ElemEq(self.v[j], key)
            IN Res([self EXCEPT !.v = SeqRemoveAt(self.v, at)], Ok)
        ELSE Res(self, Ok)
    ELSE IF self.k = "MetaSet" THEN
        Res(IF Hashable(key) THEN [self EXCEPT !.v = {y \in self.v : ~PyEq(y, key)}] ELSE self, Ok)
    ELSE Res(self, Ok)

\* pop returns the value taken out, or the default; dict.pop of an empty
\* dict returns the default without hashing the key
pop(self, args) ==
    LET kv == Invoke("_pull_args", <<self, args>>)
        k == kv.v[1]
        v == kv.v[2]
    IN IF IsErr(kv) THEN Res(self, kv)
       ELSE IF self.k = "MetaDict" THEN
            IF Len(self.v) = 0 THEN Res(self, v)
            ELSE IF ~Hashable(k) THEN Res(self, Err("TypeError", "unhashable"))
            ELSE IF DictHas(self, k) THEN Res(DictDel(self, k), DictGet(self, k))
            ELSE Res(self, v)
       ELSE IF self.k = "MetaList" THEN
            IF BaseKind(k) \notin {"int", "bool"} THEN Res(self, Err("TypeError", "integer"))
            ELSE LET at == PyIndex(IndexVal(k), Len(self.v)) IN
                 IF at = 0 THEN Res(self, v)
                 ELSE Res([self EXCEPT !.v = SeqRemoveAt(self.v, at)], self.v[at])
       ELSE LET value == args[1] IN
            IF Invoke("Contains", <<self, value>>)
            THEN Res([self EXCEPT !.v = {y \in self.v : ~PyEq(y, value)}], value)
            ELSE Res(self, v)

\* node.is_valid(): validate_all by the node's own validator, any exception
\* read as False
is_valid(self) == ~IsErr(ValidatorValidateAll(self.validator, self))
\* node.validate(): validate_all by a validator built on the schema attribute
validate(self) ==
    IF self.schema.k = "none" THEN Err("ValueError", "No schema")
    ELSE LET r == Invoke("validate_all", <<self.schema, self>>) IN IF IsErr(r) THEN r ELSE Ok

\* Schema(schema, validate=False), unless schema is a Schema already
SchemaNoValidate(schema) ==
    IF schema.k = "Schema" THEN schema
    ELSE Invoke("SchemaInit", <<schema, "no", "SchemaValidator">>)

\* the loop of wrap_meta_structure over the entries of a dict, with
\* validate=False among the keyword arguments
WrapEntriesNoValidate(raw_data, schema_obj, i, wrapped) ==
    IF i > Len(raw_data.v) THEN wrapped
    ELSE LET k == raw_data.v[i][1]
             v == raw_data.v[i][2]
             coerced_k == Invoke("coerce_key", <<schema_obj, k>>)
             sub_schema == IF IsErr(coerced_k) THEN coerced_k
                           ELSE Invoke("resolve_from", <<schema_obj, coerced_k, 0>>)
             w == IF IsErr(sub_schema) THEN sub_schema
                  ELSE Invoke("wrap_validate_false", <<v, sub_schema>>)
         IN IF IsErr(w) THEN w
            ELSE Invoke("WrapEntriesNoValidate",
                        <<raw_data, schema_obj, i + 1, DictSet(wrapped, coerced_k, w)>>)

\* wrap_meta_structure(data, schema, validate=False): the keyword reaches
\* Schema, every recursive call and every Meta class
wrap_validate_false(data, schema) ==
    IF IsMeta(data) THEN
        IF schema.k = "none" THEN data
        ELSE LET s == Invoke("SchemaNoValidate", <<schema>>) IN
             IF IsErr(s) THEN s ELSE [data EXCEPT !.schema = s]
    ELSE LET schema_obj == Invoke("SchemaNoValidate", <<schema>>) IN
    IF IsErr(schema_obj) THEN schema_obj
    ELSE IF data.k = "bool" THEN Err("TypeError", "unexpected keyword argument")
    ELSE IF data.k = "int" THEN Invoke("Validated", <<Invoke("MetaScalar", <<"MetaInt", data, schema_obj>>), schema_obj>>)
    ELSE IF data.k = "float" THEN Invoke("Validated", <<Invoke("MetaScalar", <<"MetaFloat", data, schema_obj>>), schema_obj>>)
    ELSE IF data.k = "str" THEN Invoke("Validated", <<Invoke("MetaScalar", <<"MetaStr", data, schema_obj>>), schema_obj>>)
    ELSE IF data.k = "dict" THEN
        LET raw_data == Invoke("coerce_dict_keys", <<data, schema_obj.v>>)
            wrapped == Invoke("WrapEntriesNoValidate", <<raw_data, schema_obj, 1, PyDict(<<>>)>>)
        IN IF IsErr(wrapped) THEN wrapped
           ELSE Invoke("Validated", <<Invoke("MetaContainer", <<"MetaDict", wrapped, schema_obj>>), schema_obj>>)
    ELSE IF data.k \in {"list", "tuple", "set"} THEN
        LET sub_schema == Invoke("resolve_from", <<schema_obj, PyNone, 0>>)
            items == Iterate(data)
            container_data == [i \in DOMAIN items |-> Invoke("wrap_validate_false", <<items[i], sub_schema>>)]
            as_set == Invoke("SetOf", <<container_data, 1, {}>>)
        IN IF IsErr(sub_schema) THEN sub_schema
           ELSE IF HasErr(container_data) THEN FirstErr(container_data)
           ELSE IF data.k = "list"
           THEN Invoke("Validated", <<Invoke("MetaContainer", <<"MetaList", PyList(container_data), schema_obj>>), schema_obj>>)
           ELSE IF data.k = "tuple"
           THEN Invoke("Validated", <<Invoke("MetaContainer", <<"MetaTuple", PyList(container_data), schema_obj>>), schema_obj>>)
           ELSE IF IsErr(as_set) THEN as_set
           ELSE Invoke("Validated", <<Invoke("MetaContainer", <<"MetaSet", as_set, schema_obj>>), schema_obj>>)
    ELSE IF data.k = "none" THEN Invoke("Validated", <<MetaNoneNew(data, schema_obj), schema_obj>>)
    ELSE Err("TypeError", "Unsupported type")

(***************************************************************************)
(* The call of a function by name: its body applied to the arguments.      *)
(***************************************************************************)
Invoke(f, a) ==
    CASE f = "Construct" -> Construct(a[1], a[2])
      [] f = "get_default_from_type" -> get_default_from_type(a[1])
      [] f = "coerce_key_to_type" -> coerce_key_to_type(a[1], a[2])
      [] f = "FillFrom" -> FillFrom(a[1], a[2], a[3])
      [] f = "fill_missing_keys" -> fill_missing_keys(a[1], a[2])
      [] f = "NormalizeAll" -> NormalizeAll(a[1])
      [] f = "NormalizeFields" -> NormalizeFields(a[1], a[2], a[3])
      [] f = "_normalize_schema" -> _normalize_schema(a[1])
      [] f = "SchemaInit" -> SchemaInit(a[1], a[2], a[3])
      [] f = "Schema" -> Schema(a[1])
      [] f = "ensure" -> ensure(a[1])
      [] f = "MatchKeyType" -> MatchKeyType(a[1], a[2], a[3])
      [] f = "resolve_from" -> resolve_from(a[1], a[2], a[3])
      [] f = "coerce_key" -> coerce_key(a[1], a[2])
      [] f = "build_validator" -> build_validator(a[1])
      [] f = "is_type_match" -> is_type_match(a[1], a[2])
      [] f = "resolve_schema_key" -> resolve_schema_key(a[1], a[2])
      [] f = "type_check" -> type_check(a[1], a[2])
      [] f = "KeyAllowed" -> KeyAllowed(a[1], a[2], a[3])
      [] f = "KeysAllowed" -> KeysAllowed(a[1], a[2])
      [] f = "UnionPass1" -> UnionPass1(a[1], a[2], a[3])
      [] f = "UnionPass2" -> UnionPass2(a[1], a[2], a[3])
      [] f = "resolve_union_branch" -> resolve_union_branch(a[1], a[2])
      [] f = "_validate_native" -> _validate_native(a[1], a[2])
      [] f = "validate_scalar" -> validate_scalar(a[1], a[2], a[3])
      [] f = "validate_tuple" -> validate_tuple(a[1], a[2], a[3])
      [] f = "validate_container" -> validate_container(a[1], a[2], a[3])
      [] f = "validate_recursive" -> validate_recursive(a[1], a[2], a[3], a[4])
      [] f = "validate_all" -> validate_all(a[1], a[2])
      [] f = "CoerceDictKey" -> CoerceDictKey(a[1], a[2])
      [] f = "CoerceEntries" -> CoerceEntries(a[1], a[2], a[3], a[4])
      [] f = "coerce_dict_keys" -> coerce_dict_keys(a[1], a[2])
      [] f = "_coerce_key_type" -> _coerce_key_type(a[1], a[2])
      [] f = "resolve_schema" -> resolve_schema(a[1], a[2], a[3])
      [] f = "MetaScalar" -> MetaScalar(a[1], a[2], a[3])
      [] f = "MetaBoolNew" -> MetaBoolNew(a[1], a[2])
      [] f = "_pull_args" -> _pull_args(a[1], a[2])
      [] f = "__setitem__" -> __setitem__(a[1], a[2], a[3])
      [] f = "Contains" -> Contains(a[1], a[2])
      [] f = "AddEach" -> AddEach(a[1], a[2], a[3])
      [] f = "add" -> add(a[1], a[2])
      [] f = "DictInit" -> DictInit(a[1], a[2], a[3])
      [] f = "ListInit" -> ListInit(a[1], a[2], a[3])
      [] f = "SetInit" -> SetInit(a[1], a[2], a[3])
      [] f = "TupleItems" -> TupleItems(a[1], a[2])
      [] f = "MetaContainer" -> MetaContainer(a[1], a[2], a[3])
      [] f = "WrapEntries" -> WrapEntries(a[1], a[2], a[3], a[4])
      [] f = "SetOf" -> SetOf(a[1], a[2], a[3])
      [] f = "Validated" -> Validated(a[1], a[2])
      [] f = "wrap_meta_structure" -> wrap_meta_structure(a[1], a[2])
      [] f = "AddAll" -> AddAll(a[1], a[2], a[3])
      [] f = "UpdateEntries" -> UpdateEntries(a[1], a[2], a[3])
      [] f = "update" -> update(a[1], a[2])
      [] f = "set" -> set(a[1], a[2], a[3])
      [] f = "remove" -> remove(a[1], a[2])
      [] f = "pop" -> pop(a[1], a[2])
      [] f = "is_valid" -> is_valid(a[1])
      [] f = "validate" -> validate(a[1])
      [] f = "SchemaNoValidate" -> SchemaNoValidate(a[1])
      [] f = "WrapEntriesNoValidate" -> WrapEntriesNoValidate(a[1], a[2], a[3], a[4])
      [] f = "wrap_validate_false" -> wrap_validate_false(a[1], a[2])

(***************************************************************************)
(* The values, descriptors and arguments the calls are made with           *)
(***************************************************************************)
SA == PyStr(<<"a">>)
SB == PyStr(<<"b">>)
SC == PyStr(<<"c">>)
SX == PyStr(<<"x">>)
SOne == PyStr(<<"1">>)
SName == PyStr(<<"n", "a", "m", "e">>)
SExtra == PyStr(<<"e", "x", "t", "r", "a">>)
SCount == PyStr(<<"c", "o", "u", "n", "t">>)
Dict1(k, v) == PyDict(<< <<k, v>> >>)
Dict2(k1, v1, k2, v2) == PyDict(<< <<k1, v1>>, <<k2, v2>> >>)
Pair12 == PyTuple(<<PyInt(1), PyInt(2)>>)

\* the values handed to wrap
WrapValues ==
    { Dict1(SA, PyInt(1)), Dict1(SA, PyList(<<PyInt(1)>>)), Dict1(SOne, SA),
      Dict1(SA, Pair12), PyList(<<PyInt(1)>>), PySet({PyInt(1)}),
      Dict2(SName, SX, SExtra, PyInt(1)), Dict2(SName, SX, SExtra, PySet({PyNone})) }
\* the schema expressions handed to wrap
WrapDescs ==
    { Dict1(SA, TInt), Dict1(TStr, PyList(<<TInt>>)), Dict1(TInt, TStr),
      Dict1(SA, AnyT), PyList(<<TInt>>), PySet({TInt}), Dict1(SName, TStr) }

\* the argument lists of the mutating calls
MapOfTwo == Dict2(SB, PyList(<<PyInt(2)>>), SC, SX)
AddArgs == { <<SA, SX>>, <<SX>>, <<PyInt(2)>> }
SetArgs == { <<SA, SX>>, <<MapOfTwo>> }
UpdateArgs == { <<MapOfTwo>>, <<Dict1(SB, PyList(<<PyInt(2)>>))>> }
RemoveKeys == { SA, PyInt(1) }
PopArgs == { <<SA>>, <<PyInt(0)>> }
\* the number of mutating calls made on a node
MaxSteps == 2

\* the schema expressions handed to the normalizer: raw scalar types,
\* parametric generics, sum types and explicit maps, nested
OptionalInt == TUnion(<<TInt, TNoneType>>)
NormalizeExprs ==
    { TInt, AnyT, TList(TInt), TSet(TInt), TDict(TStr, TInt), TTuple(<<TInt, TStr>>),
      TTuple(<<TInt, Ell>>), TUnion(<<TInt, TStr>>), OptionalInt,
      TUnion(<<TInt, TNoneType, TStr>>), TUnion(<<TList(TInt), TInt>>),
      TList(OptionalInt), TSet(OptionalInt), TDict(TStr, OptionalInt),
      TDict(OptionalInt, TStr), TDict(TUnion(<<TInt, TStr>>), TInt),
      TTuple(<<OptionalInt, TStr>>), TList(TList(TInt)),
      Dict1(SA, TInt), Dict1(SA, OptionalInt), Dict1(OptionalInt, TStr),
      Dict1(SA, TList(OptionalInt)), PyList(<<TInt>>), PyList(<<OptionalInt>>),
      Dict1(SA, PyList(<<OptionalInt>>)) }

\* explicit maps of literal keys and key-patterns, and the keys resolved in them
Origin == PyTuple(<<PyInt(0), PyInt(0)>>)
IntOrStr == PyTuple(<<TInt, TStr>>)
ResolveMaps ==
    { Dict2(TStr, TInt, SA, TStr), Dict2(SA, TStr, TStr, TInt), Dict2(TInt, TStr, IntOrStr, TFloat),
      Dict2(IntOrStr, TFloat, TInt, TStr), Dict2(PyInt(1), TStr, TInt, TFloat),
      Dict2(TFloat, TStr, TInt, TBool), Dict2(Origin, TStr, TStr, TInt), Dict1(SA, TInt) }
ResolveKeys == { SA, SB, PyInt(1), PyInt(0), PyBool(TRUE), PyFloat(3), PyNone, Origin }

\* sequence and set descriptors, and the indices and values resolved in them
ItemDescs == { PyList(<<TInt>>), PySet({TInt}), TList(TStr), TSet(TStr), PyList(<<PyList(<<TInt>>)>>) }
ItemKeys == { PyInt(0), PyInt(1), PyInt(2), PyNone, SA }

\* tuple descriptors and the positions resolved in them
TupleDescs ==
    { PyTuple(<<TInt, TStr>>), TTuple(<<TInt, TStr>>), PyTuple(<<TInt, Ell>>), TTuple(<<TStr, Ell>>),
      TTuple(<<>>) }
TuplePositions == { -1, 0, 1, 2 }

\* keys and the target types they are coerced to; a tuple of types, Any and
\* None cannot be called
CoerceKeys == { PyStr(<<"1">>), SA, PyStr(<<"1", ".", "5">>), PyInt(1), PyInt(0), PyFloat(3), PyBool(TRUE), PyNone }
CoerceTypes == { TInt, TFloat, TStr, TBool, TNoneType, IntOrStr, AnyT, PyNone }
CoerceDescs == { TDict(TInt, TStr), TDict(TFloat, TStr), Dict1(TInt, TStr), PyList(<<TInt>>) }

\* descriptors a default is asked for: maps, sequences, sets, tuples, scalars,
\* Any, forms that describe nothing, and sums
DefaultDescs ==
    { Dict1(TStr, TInt), TDict(TStr, TInt), PyList(<<TInt>>), TList(TInt),
      PySet({TInt}), TSet(TInt), PyTuple(<<TInt, TStr>>), TTuple(<<TStr, TInt>>),
      TTuple(<<TInt, Ell>>), TInt, TFloat, TStr, TBool, AnyT, PyNone, PyInt(1),
      TUnion(<<TInt, TStr>>), TUnion(<<TStr, TInt>>), OptionalInt }

\* the tuples that are wrapped into tuple nodes, the descriptors they are
\* wrapped with, and the argument lists of the calls made on a tuple node
TupleValues == { Pair12, PyTuple(<<PyInt(1), SA>>), PyTuple(<<>>) }
TupleNodeDescs == { AnyT, PyNone, Type("tuple") }
TupleCallArgs == { <<PyInt(0)>>, <<PyInt(0), PyInt(9)>>, <<Pair12>> }

\* text keys made of digits only, and the values stored under them
DigitKeys == { SOne, PyStr(<<"0">>), PyStr(<<"1", "2">>) }
EntryValues == { PyInt(1), SX }

\* sum types, each declared in both orders of its members
OrderedSums ==
    { TUnion(<<TInt, TStr>>), TUnion(<<TStr, TInt>>), TUnion(<<TFloat, TInt>>),
      TUnion(<<TInt, TFloat>>), TUnion(<<TStr, TNoneType, TInt>>) }

\* the keys under which a child of a node is put into the node once more
InsertKeys == { SB, PyInt(0) }

\* values of kinds META_TYPE_MAP has no entry for: an object(), a bytes, a
\* complex and a class used as data
UnsupportedValues ==
    { [k |-> "object", v |-> 0], [k |-> "bytes", v |-> 0], [k |-> "complex", v |-> 0], TInt }
\* the schema expressions handed to wrap with them
UnsupportedDescs ==
    { PyNone, TInt, AnyT, Dict1(SA, TInt), PyList(<<TInt>>), TUnion(<<TInt, TStr>>),
      TUnion(<<TList(TInt), TInt>>), TSet(TUnion(<<TInt, TNoneType>>)) }

\* the values and schema expressions handed to a validator
ValidateValues ==
    { Pair12, PyTuple(<<PyInt(1), SA>>), PyTuple(<<PyInt(1), SA, SB>>), PyInt(1),
      Dict1(SExtra, PyInt(1)), Dict2(SName, SX, SExtra, PySet({PyNone})),
      Dict1(SName, SX), Dict1(Pair12, SX) }
ValidateDescs ==
    { TTuple(<<TInt, TStr>>), TTuple(<<TInt, TInt>>), Dict1(SName, TStr),
      Dict2(SName, TStr, PyTuple(<<TInt, TFloat>>), TInt),
      Dict1(PyTuple(<<PyInt(0), PyInt(0)>>), TStr), TInt }

\* the sum types and values handed to resolve_union_branch
UnionTypes ==
    { TUnion(<<TInt, TBool>>), TUnion(<<TDict(TStr, TInt), TInt, TBool>>),
      TUnion(<<TList(TInt), TList(TStr)>>), TUnion(<<TDict(TStr, TInt), TList(TInt)>>),
      TUnion(<<TSet(TInt), TList(TInt)>>), TUnion(<<TInt, TList(TInt)>>),
      TUnion(<<TList(TInt), TDict(TStr, TInt), TSet(TInt)>>) }
UnionValues ==
    { PyBool(TRUE), PyInt(1), SA, PyList(<<>>), PyDict(<<>>), PySet({}),
      PyList(<<PyInt(1)>>) }

\* the maps and explicit-map descriptors handed to fill_missing_keys
FillData ==
    { PyDict(<<>>), Dict1(SCount, PyNone), Dict1(SCount, PyInt(5)), Dict1(PyInt(1), SA) }
FillSchemas ==
    { Dict1(SCount, TInt), Dict1(TStr, TInt), Dict1(PyTuple(<<TInt, TStr>>), TInt),
      Dict2(SCount, TInt, TStr, PyList(<<TInt>>)),
      Dict2(SCount, TInt, PyTuple(<<TInt, TStr>>), TStr) }

\* the sum types and values handed to a validator
SumTypes ==
    { TUnion(<<TInt, TStr>>), TUnion(<<TInt, TNoneType>>), TUnion(<<TList(TInt), TInt>>),
      TUnion(<<TInt, TNoneType, TStr>>) }
SumValues == { PyInt(1), SX, PyFloat(3), PyList(<<PyInt(1)>>), PyList(<<SX>>), PyBool(TRUE) }

\* the schema expressions an existing node is wrapped again with
RewrapDescs == { Dict1(SA, TStr), PyList(<<TStr>>), TStr, PyNone }

\* the values and schema expressions handed to wrap with validate=False
NoValidateValues ==
    { Dict1(SA, PyInt(1)), Dict1(SA, SX), PyList(<<SX>>), PyList(<<PyBool(TRUE)>>),
      PyBool(TRUE), PyInt(1), Dict1(SA, Dict1(SB, SX)) }
NoValidateDescs ==
    { Dict1(SA, TInt), PyList(<<TInt>>), TStr, TBool, Dict1(SA, Dict1(SB, TInt)) }

\* the scalars and scalar types handed to wrap
ScalarValues == { PyBool(TRUE), PyInt(1), PyFloat(3), SX, PyNone }
ScalarDescs == { TInt, TStr, TBool, TFloat, TNoneType }

(***************************************************************************)
(* The calls a program makes: it wraps a value and mutates the node, or    *)
(* it calls a validator, the sum-type resolver or the default filler.      *)
(***************************************************************************)
\* node: the node wrap returned (None before, and when wrap raised);
\* desc: the schema expression it was wrapped against;
\* call: the last call, its arguments, what it returned or raised, and the
\*       node as it was when the call began;
\* clean: since it was wrapped the node has only been mutated, by calls that
\*        each returned without error;
\* steps: the number of mutating calls made
VARIABLES node, desc, call, clean, steps
vars == <<anyIsClass, hashSeed, node, desc, call, clean, steps>>

Call(op, args, ret, pre) == [op |-> op, args |-> args, ret |-> ret, pre |-> pre]
IsContainerNode(n) == n.k \in {"MetaDict", "MetaList", "MetaSet"}
Fresh == node = PyNone /\ call.op = "none"
CanMutate == IsContainerNode(node) /\ steps < MaxSteps

Init ==
    /\ anyIsClass \in BOOLEAN
    /\ hashSeed \in BOOLEAN
    /\ node = PyNone
    /\ desc = PyNone
    /\ call = Call("none", <<>>, PyNone, PyNone)
    /\ clean = TRUE
    /\ steps = 0

\* a mutating call leaves the node as the method left it, also when it raised
Mutated(op, args, r) ==
    /\ node' = r.self
    /\ call' = Call(op, args, r.v, node)
    /\ clean' = (clean /\ ~IsErr(r.v))
    /\ steps' = steps + 1
    /\ UNCHANGED <<anyIsClass, hashSeed, desc>>

\* a call of a function that keeps no state
Called(op, args, ret) ==
    /\ call' = Call(op, args, ret, PyNone)
    /\ UNCHANGED <<anyIsClass, hashSeed, node, desc, clean, steps>>

Wrap ==
    /\ Fresh
    /\ \E x \in WrapValues, d \in WrapDescs :
         \E r \in {Invoke("wrap_meta_structure", <<x, d>>)} :
         /\ node' = IF IsErr(r) THEN PyNone ELSE r
         /\ desc' = d
         /\ call' = Call("wrap", <<x, d>>, r, PyNone)
    /\ UNCHANGED <<anyIsClass, hashSeed, clean, steps>>

Add ==
    /\ CanMutate
    /\ \E args \in AddArgs : \E r \in {Invoke("add", <<node, args>>)} : Mutated("add", args, r)

Set ==
    /\ CanMutate
    /\ \E args \in SetArgs, replace \in BOOLEAN :
         \E r \in {Invoke("set", <<node, args, replace>>)} :
           Mutated(IF replace THEN "set_replace" ELSE "set", args, r)

Update ==
    /\ CanMutate
    /\ \E args \in UpdateArgs : \E r \in {Invoke("update", <<node, args>>)} : Mutated("update", args, r)

Remove ==
    /\ CanMutate
    /\ \E key \in RemoveKeys : \E r \in {Invoke("remove", <<node, key>>)} : Mutated("remove", <<key>>, r)

Pop ==
    /\ CanMutate
    /\ \E args \in PopArgs : \E r \in {Invoke("pop", <<node, args>>)} : Mutated("pop", args, r)

\* SchemaValidator(d).validate_all(x), d as written or as Schema normalizes it
ValidateAll ==
    /\ Fresh
    /\ \E x \in ValidateValues, d \in ValidateDescs, canonical \in BOOLEAN :
         \E schema \in {IF canonical THEN Invoke("_normalize_schema", <<d>>) ELSE d} :
           Called("validate_all", <<x, schema>>, Invoke("validate_all", <<schema, x>>))

\* SchemaValidator(d).validate_recursive("value", x, d)
ValidateRecursive ==
    /\ Fresh
    /\ \E x \in ValidateValues, d \in ValidateDescs :
         Called("validate_recursive", <<x, d>>, Invoke("validate_recursive", <<d, KeyPath, x, d>>))

ResolveUnionBranch ==
    /\ Fresh
    /\ \E value \in UnionValues, union_type \in UnionTypes :
         Called("resolve_union_branch", <<value, union_type>>,
                Invoke("resolve_union_branch", <<value, union_type>>))

FillMissingKeys ==
    /\ Fresh
    /\ \E data \in FillData, schema \in FillSchemas :
         Called("fill_missing_keys", <<data, schema>>, Invoke("fill_missing_keys", <<data, schema>>))

\* wrap_meta_structure(v, T) of a scalar v at top level, with no keyword
WrapScalar ==
    /\ Fresh
    /\ \E x \in ScalarValues, d \in ScalarDescs :
         \E r \in {Invoke("wrap_meta_structure", <<x, d>>)} :
         /\ node' = IF IsErr(r) THEN PyNone ELSE r
         /\ desc' = d
         /\ call' = Call("wrap", <<x, d>>, r, PyNone)
    /\ UNCHANGED <<anyIsClass, hashSeed, clean, steps>>

\* SchemaValidator(d).validate_all(x) for a sum type, d being the sum type
\* as written or as Schema normalizes it
ValidateSum ==
    /\ Fresh
    /\ \E x \in SumValues, u \in SumTypes, canonical \in BOOLEAN :
         \E schema \in {IF canonical THEN Invoke("_normalize_schema", <<u>>) ELSE u} :
           Called("validate_sum", <<x, u, schema>>,
                  IF IsErr(schema) THEN schema ELSE Invoke("validate_all", <<schema, x>>))

\* wrap_meta_structure(n, d) of the node n itself: the node is re-tagged in
\* place and returned
Rewrap ==
    /\ IsMeta(node)
    /\ steps < MaxSteps
    /\ \E d \in RewrapDescs :
         \E r \in {Invoke("wrap_meta_structure", <<node, d>>)} :
         /\ node' = IF IsErr(r) THEN node ELSE r
         /\ desc' = IF IsErr(r) \/ d = PyNone THEN desc ELSE d
         /\ call' = Call("rewrap", <<node, d>>, r, node)
    /\ clean' = FALSE
    /\ steps' = steps + 1
    /\ UNCHANGED <<anyIsClass, hashSeed>>

\* wrap_meta_structure(x, d, validate=False)
\* Object identity.  A node object is followed through a call by a mark on
\* it: the nodes a call builds carry no mark, so the slots that carry the
\* mark after the call hold the object that carried it before.
Label(c) == [k |-> c.k, v |-> c.v, schema |-> c.schema, validator |-> c.validator, id |-> 1]
IsLabelled(x) == "id" \in DOMAIN x
Unlabel(x) == [k |-> x.k, v |-> x.v, schema |-> x.schema, validator |-> x.validator]
\* the parent slots of a map or sequence node and what they hold
SlotIdx(n) == IF n.k \in {"MetaDict", "MetaList"} THEN DOMAIN n.v ELSE {}
SlotValue(n, i) == IF n.k = "MetaDict" THEN n.v[i][2] ELSE n.v[i]
WithSlot(n, i, c) ==
    IF n.k = "MetaDict" THEN [n EXCEPT !.v[i] = <<n.v[i][1], c>>] ELSE [n EXCEPT !.v[i] = c]
LabelledSlots(n) == {i \in SlotIdx(n) : IsLabelled(SlotValue(n, i))}
\* self with the marks taken off; the marked slots hold one object, so all
\* of them show the attributes the call left on it (c0: the object before)
Unlabelled(self, c0) ==
    LET S == LabelledSlots(self)
        cur == IF \E i \in S : SlotValue(self, i) # c0
               THEN SlotValue(self, CHOOSE i \in S : SlotValue(self, i) # c0) ELSE c0
    IN [self EXCEPT !.v = [i \in DOMAIN self.v |->
            IF i \notin S THEN self.v[i]
            ELSE IF self.k = "MetaDict" THEN <<self.v[i][1], Unlabel(cur)>> ELSE Unlabel(cur)]]

\* node.add(key, node[i]), node.set(key, node[i]) and node[key] = node[i]:
\* a child of the node is handed to the node as the value to put in
InsertChild ==
    /\ CanMutate
    /\ \E i \in SlotIdx(node), key \in InsertKeys, how \in {"add", "set", "__setitem__"} :
         LET c == Label(SlotValue(node, i))
             self == WithSlot(node, i, c)
         IN \E r \in {IF how = "add" THEN Invoke("add", <<self, <<key, c>>>>)
                       ELSE IF how = "set" THEN Invoke("set", <<self, <<key, c>>, FALSE>>)
                       ELSE Invoke("__setitem__", <<self, key, c>>)} :
              /\ node' = Unlabelled(r.self, c)
              /\ call' = Call(how \o "_child", <<key, c>>, IF IsErr(r.v) THEN r.v ELSE r.self, node)
    /\ clean' = FALSE
    /\ steps' = steps + 1
    /\ UNCHANGED <<anyIsClass, hashSeed, desc>>

\* Schema(d).schema: the normalizer applied to a schema expression
Normalize ==
    /\ Fresh
    /\ \E d \in NormalizeExprs :
         Called("normalize", <<d>>, Invoke("_normalize_schema", <<d>>))

\* Schema(n).schema of a descriptor n the normalizer has just returned
Renormalize ==
    /\ call.op = "normalize"
    /\ ~IsErr(call.ret)
    /\ Called("renormalize", <<call.ret>>, Invoke("_normalize_schema", <<call.ret>>))

\* the calls of resolve_from: Schema(u).resolve_from(0) for a sum u, as
\* iterating its normalized form yields the first branch;
\* Schema(d).resolve_from(key) for an explicit map d and for a sequence or
\* set descriptor d; Schema(d).resolve_from(i) and
\* Schema(d).resolve_from(None, None, level=i) for a tuple descriptor d
ResolveCalls ==
    { [op |-> "resolve_sum", args |-> <<u>>, key |-> PyInt(0), level |-> 0] :
        u \in OrderedSums }
    \cup { [op |-> "resolve_key", args |-> <<p[1], p[2]>>, key |-> p[2], level |-> 0] :
             p \in ResolveMaps \X ResolveKeys }
    \cup { [op |-> "resolve_item", args |-> <<p[1], p[2]>>, key |-> p[2], level |-> 0] :
             p \in ItemDescs \X ItemKeys }
    \cup { [op |-> "resolve_tuple", args |-> <<p[1], PyInt(p[2]), PyBool(p[3])>>,
            key |-> IF p[3] THEN PyNone ELSE PyInt(p[2]),
            level |-> IF p[3] THEN p[2] ELSE 0] :
             p \in TupleDescs \X TuplePositions \X BOOLEAN }

\* Schema(d).resolve_from(key, None, level)
Resolve ==
    /\ Fresh
    /\ \E c \in ResolveCalls :
         \E s \in {Invoke("Schema", <<c.args[1]>>)} :
            Called(c.op, c.args,
                   IF IsErr(s) THEN s ELSE Invoke("resolve_from", <<s, c.key, c.level>>))

\* wrap_meta_structure(data, schema) of a tuple
WrapTuple ==
    /\ Fresh
    /\ \E x \in TupleValues, d \in TupleNodeDescs :
         \E r \in {Invoke("wrap_meta_structure", <<x, d>>)} :
         /\ node' = IF IsErr(r) THEN PyNone ELSE r
         /\ desc' = d
         /\ call' = Call("wrap_tuple", <<x, d>>, r, PyNone)
    /\ UNCHANGED <<anyIsClass, hashSeed, clean, steps>>

\* the arguments a method of a node is called with
MethodArgs(method, self, args) ==
    CASE method = "remove" -> <<self, args[1]>>
      [] method = "set" -> <<self, args, FALSE>>
      [] method = "__setitem__" -> <<self, args[1], args[2]>>
      [] OTHER -> <<self, args>>

\* add, remove, pop and set on a tuple node
TupleCall ==
    /\ node.k = "MetaTuple"
    /\ steps < MaxSteps
    /\ \E args \in TupleCallArgs, method \in {"add", "remove", "pop", "set"} :
         \E r \in {Invoke(method, MethodArgs(method, node, args))} :
            Mutated(method \o "_tuple", IF method = "remove" THEN <<args[1]>> ELSE args, r)

\* add(k, v), set(k, v) and self[k] = v on a map node, k a text of digits
StoreEntry ==
    /\ node.k = "MetaDict"
    /\ steps < MaxSteps
    /\ \E k \in DigitKeys, v \in EntryValues, method \in {"add", "set", "__setitem__"} :
         \E r \in {Invoke(method, MethodArgs(method, node, <<k, v>>))} :
            Mutated(method \o "_entry", <<k, v>>, r)

\* the ways a node is validated
NodeValidations == { "validate", "is_valid", "validate_all" }

\* a validation that hands the node over as the native value it stands for
UnwrappingValidation(how, self) ==
    [self |-> to_native(self), v |-> validate(self)]

\* self.validate(), self.is_valid() and
\* SchemaValidator(self.schema.schema).validate_all(self): the node after the
\* call and the outcome of the call
NodeValidation(how, self) ==
    LET r == Invoke(how, IF how = "validate_all"
                         THEN <<IF self.schema.k = "Schema" THEN self.schema.v
                                ELSE self.schema, self>>
                         ELSE <<self>>)
    IN [self |-> self, v |-> IF how = "is_valid" THEN PyBool(r) ELSE r]

ValidateNode ==
    /\ node # PyNone
    /\ steps < MaxSteps
    /\ \E how \in NodeValidations : \E r \in {NodeValidation(how, node)} :
         /\ node' = r.self
         /\ call' = Call(how \o "_node", <<>>, r.v, node)
         /\ steps' = steps + 1
    /\ UNCHANGED <<anyIsClass, hashSeed, desc, clean>>

\* get_default_from_type(tp) of the normalized form of a descriptor
DefaultFor ==
    /\ Fresh
    /\ \E d \in DefaultDescs :
         \E tp \in {Invoke("_normalize_schema", <<d>>)} :
            Called("default_for", <<d>>,
                   IF IsErr(tp) THEN tp ELSE Invoke("get_default_from_type", <<tp>>))

\* coerce_key_to_type(key, key_type)
CoerceKeyToType ==
    /\ Fresh
    /\ \E key \in CoerceKeys, key_type \in CoerceTypes :
         Called("coerce_key_to_type", <<key, key_type>>,
                Invoke("coerce_key_to_type", <<key, key_type>>))

\* Schema(d).coerce_key(key)
CoerceKey ==
    /\ Fresh
    /\ \E d \in CoerceDescs, key \in CoerceKeys :
         \E s \in {Invoke("Schema", <<d>>)} :
            Called("coerce_key", <<key, d>>,
                   IF IsErr(s) THEN s ELSE Invoke("coerce_key", <<s, key>>))

\* wrap_meta_structure(data, schema) of a value no wrapper class stands for
WrapUnsupported ==
    /\ Fresh
    /\ \E x \in UnsupportedValues, d \in UnsupportedDescs :
         Called("wrap_unsupported", <<x, d>>, Invoke("wrap_meta_structure", <<x, d>>))

WrapNoValidate ==
    /\ Fresh
    /\ \E x \in NoValidateValues, d \in NoValidateDescs :
         Called("wrap_validate_false", <<x, d>>, Invoke("wrap_validate_false", <<x, d>>))

Next ==
    \/ Wrap
    \/ WrapUnsupported
    \/ WrapNoValidate
    \/ Rewrap
    \/ InsertChild
    \/ Normalize
    \/ Renormalize
    \/ Resolve
    \/ WrapTuple
    \/ TupleCall
    \/ StoreEntry
    \/ ValidateNode
    \/ DefaultFor
    \/ CoerceKeyToType
    \/ CoerceKey
    \/ WrapScalar
    \/ ValidateSum
    \/ Add
    \/ Set
    \/ Update
    \/ Remove
    \/ Pop
    \/ ValidateAll
    \/ ValidateRecursive
    \/ ResolveUnionBranch
    \/ FillMissingKeys

Spec == Init /\ [][Next]_vars

(***************************************************************************)
(* The properties                                                          *)
(***************************************************************************)
\* validate(value, descriptor): the validator of the canonical descriptor
\* run over the whole value
Validates(value, d) ==
    ~IsErr(Invoke("validate_all", <<Invoke("_normalize_schema", <<d>>), value>>))
\* the error a value of the wrong type is refused with
IsSchemaMismatch(r) ==
    IsErr(r) /\ r.v = "TypeError" /\ r.m \in {"mismatch", "ValidationError"}
\* key matches a key-pattern of an explicit map: the literal key it equals,
\* a type it is an instance of, or a tuple of types holding such a type
IsTypeTuple(p) == p.k = "tuple" /\ \A i \in DOMAIN p.v : p.v[i].k = "type"
MatchesPattern(key, p) ==
    IF p.k = "type" THEN IsInstance(key, p)
    ELSE IF IsTypeTuple(p) THEN \E i \in DOMAIN p.v : IsInstance(key, p.v[i])
    ELSE PyEq(key, p)
IsExplicitMap(d) == d.k = "dict" /\ Len(d.v) > 0
HasUnmatchedKey(data, d) ==
    \E i \in DOMAIN data.v : \A j \in DOMAIN d.v : ~MatchesPattern(data.v[i][1], d.v[j][1])
\* the branches of a sum type a value fully validates against, by position
ValidBranches(value, union_type) ==
    {i \in DOMAIN union_type.v : ~IsErr(Invoke("validate_all", <<union_type.v[i], value>>))}
\* the typing generic an empty container belongs to
ShapeOf(value) ==
    CASE value.k = "list" -> "List" [] value.k = "dict" -> "Dict" [] value.k = "set" -> "Set"
      [] OTHER -> "none"
IsEmptyContainer(value) ==
    \/ value.k \in {"list", "dict"} /\ Len(value.v) = 0
    \/ value.k = "set" /\ value.v = {}
BranchesOfShape(value, union_type) ==
    {i \in DOMAIN union_type.v : union_type.v[i].k = ShapeOf(value)}
Least(S) == CHOOSE i \in S : \A j \in S : i <= j
\* a fixed-tuple descriptor, as written (Tuple[int, str]) or canonical
\* ((int, str)), and its items
IsFixedTuple(d) ==
    /\ d.k \in {"Tuple", "tuple"}
    /\ Len(d.v) > 0
    /\ d.v[Len(d.v)] # Ell
TupleFits(value, d) ==
    /\ value.k = "tuple"
    /\ Len(value.v) = Len(d.v)
    /\ \A i \in DOMAIN d.v : ~IsErr(Invoke("validate_all", <<d.v[i], value.v[i]>>))

\* C1 Round-trip: whenever wrap(x, d) is called with a value x that validates
\* against d, the call returns a node and to_native of that node is x, with
\* the map keys the Coercer converts converted.
C1_RoundTrip ==
    (call.op = "wrap" /\ Validates(call.args[1], call.args[2])) =>
        /\ ~IsErr(call.ret)
        /\ LET x == call.args[1]
               schema == Invoke("_normalize_schema", <<call.args[2]>>)
           IN to_native(call.ret) =
                  (IF x.k = "dict" THEN Invoke("coerce_dict_keys", <<x, schema>>) ELSE x)

\* C2 Mutation re-validation: add(key, value) or set(key, value) on a map,
\* sequence or set node, with a value that does not validate against the
\* sub-descriptor resolve_schema gives for the key, raises a schema-mismatch
\* error and leaves the contents of the node as they were.
C2_MutationRevalidation ==
    LET pre == call.pre
        kv == Invoke("_pull_args", <<pre, call.args>>)
        rs == Invoke("resolve_schema", <<pre, kv.v[1], kv.v[2]>>)
        resolved == Invoke("ensure", <<rs>>)
    IN (/\ call.op \in {"add", "set"}
        /\ ~(pre.k = "MetaDict" /\ Len(call.args) = 1)
        /\ ~IsErr(kv)
        /\ ~IsErr(rs)
        /\ ~IsErr(resolved)
        /\ IsErr(Invoke("validate_all", <<resolved.v, kv.v[2]>>)))
       => (IsSchemaMismatch(call.ret) /\ node.v = pre.v)

\* C3 Schema consistency under mutation: a node that wrap returned and that
\* only calls returning without error have mutated validates against the
\* descriptor it was wrapped with, and is_valid() is true of it.
C3_ConsistentUnderMutation ==
    (IsContainerNode(node) /\ clean) =>
        /\ ~IsErr(Invoke("validate_all", <<Invoke("_normalize_schema", <<desc>>), node>>))
        /\ Invoke("is_valid", <<node>>)

\* C4 No partial application: update(m), set(m) or set(m, replace=True) on a
\* map node, with a map m of several entries, that raises leaves the
\* contents of the node as they were before the call.
C4_NoPartialApplication ==
    (/\ call.op \in {"update", "set", "set_replace"}
     /\ call.pre.k = "MetaDict"
     /\ Len(call.args) = 1
     /\ call.args[1].k = "dict"
     /\ Len(call.args[1].v) > 1
     /\ IsErr(call.ret))
    => node.v = call.pre.v

\* C5 Closed-world maps: validating or wrapping a map against an explicit-map
\* descriptor, when a key of the map matches no key-pattern of the
\* descriptor, raises the key-not-allowed error.
C5_ClosedWorldMaps ==
    LET data == call.args[1]
        d == call.args[2]
    IN (/\ call.op \in {"validate_all", "wrap"}
        /\ data.k = "dict"
        /\ IsExplicitMap(d)
        /\ HasUnmatchedKey(data, d))
       => call.ret = KeyNotAllowed

\* C6 Key coercion: wrapping a map whose keys are texts of digits against an
\* explicit map whose only key-pattern is int returns a map node whose keys
\* are the integers the texts spell.
C6_KeyCoercion ==
    LET x == call.args[1]
        d == call.args[2]
    IN (/\ call.op = "wrap"
        /\ x.k = "dict"
        /\ \A i \in DOMAIN x.v : x.v[i][1].k = "str" /\ IsDigits(x.v[i][1].v)
        /\ d.k = "dict" /\ Len(d.v) = 1 /\ d.v[1][1] = TInt
        /\ \A i \in DOMAIN x.v : ~IsErr(Invoke("validate_all", <<d.v[1][2], x.v[i][2]>>)))
       => /\ call.ret.k = "MetaDict"
          /\ Len(call.ret.v) = Len(x.v)
          /\ \A i \in DOMAIN x.v :
                Native(call.ret.v[i][1]) = PyInt(DigitsVal(x.v[i][1].v))

\* C7 First-match-wins: resolve_union_branch on a value that fully validates
\* against more than one branch of the sum type returns the earliest of
\* those branches.
C7_FirstMatchWins ==
    LET value == call.args[1]
        union_type == call.args[2]
        valid == ValidBranches(value, union_type)
    IN (call.op = "resolve_union_branch" /\ Cardinality(valid) > 1)
       => call.ret = union_type.v[Least(valid)]

\* C8 Empty-container leniency: resolve_union_branch on an empty sequence,
\* map or set, and a sum type with a branch of that shape, returns the
\* first branch of that shape.
C8_EmptyContainerLeniency ==
    LET value == call.args[1]
        union_type == call.args[2]
        shaped == BranchesOfShape(value, union_type)
    IN (call.op = "resolve_union_branch" /\ IsEmptyContainer(value) /\ shaped # {})
       => call.ret = union_type.v[Least(shaped)]

\* C9 Tuple arity: validating a value against a fixed-tuple descriptor of n
\* items passes exactly when the value is a tuple of n elements each
\* validating against its item, and a tuple of another length is refused
\* with the arity mismatch.
C9_TupleArity ==
    LET value == call.args[1]
        d == call.args[2]
    IN (call.op \in {"validate_all", "validate_recursive"} /\ IsFixedTuple(d))
       => /\ ~IsErr(call.ret) <=> TupleFits(value, d)
          /\ (value.k = "tuple" /\ Len(value.v) # Len(d.v)) => call.ret = ArityMismatch

\* C10 Default filling: fill_missing_keys returns data with
\* default_for(field) under every declared literal key that data lacks or
\* maps to None, and with no key added for a type or tuple-of-types
\* key-pattern: its keys are the keys of data and the declared literal keys.
C10_DefaultFilling ==
    LET data == call.args[1]
        schema == call.args[2]
        literal == {j \in DOMAIN schema.v :
                      schema.v[j][1].k # "type" /\ ~IsTypeTuple(schema.v[j][1])}
        filled == call.ret
    IN call.op = "fill_missing_keys"
       => /\ filled.k = "dict"
          /\ \A i \in DOMAIN filled.v :
                \/ DictHas(data, filled.v[i][1])
                \/ \E j \in literal : PyEq(filled.v[i][1], schema.v[j][1])
          /\ \A i \in DOMAIN data.v : DictHas(filled, data.v[i][1])
          /\ \A j \in literal :
                /\ DictHas(filled, schema.v[j][1])
                /\ (~DictHas(data, schema.v[j][1]) \/ DictGet(data, schema.v[j][1]) = PyNone)
                   => DictGet(filled, schema.v[j][1]) =
                          Invoke("get_default_from_type", <<schema.v[j][2]>>)

\* a scalar value and a scalar type
IsScalarValue(x) == x.k \in {"bool", "int", "float", "str", "none"}
IsScalarNode(n) == n.k \in {"MetaBool", "MetaInt", "MetaFloat", "MetaStr", "MetaNone"}

\* C11 Scalar wrapping is validated: wrap(v, T) of a scalar v against a scalar
\* type T, at top level with default options, returns a scalar node when v
\* validates against T and raises a schema-mismatch error when it does not.
C11_ScalarWrapValidated ==
    LET v == call.args[1]
        T == call.args[2]
    IN (call.op = "wrap" /\ IsScalarValue(v) /\ T.k = "type")
       => IF Validates(v, T) THEN IsScalarNode(call.ret)
          ELSE IsSchemaMismatch(call.ret)

\* the branches of a sum type, null apart, that a value validates against
MatchingBranches(x, u) ==
    {i \in DOMAIN u.v : u.v[i] # TNoneType /\ ~IsErr(Invoke("validate_all", <<u.v[i], x>>))}

\* C12 No branch matched: validating a value against a sum type, as written
\* or normalized, passes only when the value validates against a branch, and
\* a value that validates against no branch is refused with the
\* did-not-match-any-branch error.
C12_NoBranchRejected ==
    LET x == call.args[1]
        u == call.args[2]
    IN call.op = "validate_sum"
       => /\ ~IsErr(call.ret) => MatchingBranches(x, u) # {}
          /\ MatchingBranches(x, u) = {} => call.ret = NoBranchMatched

\* the nodes held in the slots of a node
Children(n) ==
    IF n.k \in {"MetaDict"} THEN {n.v[i][2] : i \in DOMAIN n.v}
    ELSE IF n.k \in {"MetaList", "MetaTuple"} THEN {n.v[i] : i \in DOMAIN n.v}
    ELSE IF n.k = "MetaSet" THEN n.v
    ELSE {}
\* the validator of a node is a validator of the descriptor the node holds
ValidatorBound(n) == n.validator = Validator(n.schema)

\* C13 Re-tagging: wrap(n, d) of a node n returns n, its contents as they
\* were, with its descriptor and its validator bound to d; and the validator
\* of every node is bound to the descriptor the node holds.
C13_Retagging ==
    /\ (call.op = "rewrap" /\ call.args[2] # PyNone)
       => /\ ~IsErr(call.ret)
          /\ call.ret.k = call.pre.k
          /\ call.ret.v = call.pre.v
          /\ call.ret.schema = Invoke("Schema", <<call.args[2]>>)
          /\ ValidatorBound(call.ret)
    /\ IsMeta(node)
       => /\ ValidatorBound(node)
          /\ \A c \in Children(node) : IsMeta(c) => ValidatorBound(c)

\* the descriptor a node holds builds the no-op validator, and so does the
\* descriptor of every node below it
RECURSIVE NoOpBelow(_)
NoOpBelow(n) ==
    /\ n.schema.k = "Schema" => Invoke("build_validator", <<n.schema>>) = NoOp
    /\ \A c \in Children(n) : IsMeta(c) => NoOpBelow(c)

\* C14 Validation disabled: wrap(x, d, validate=False) returns a node for
\* every value x of a supported kind and every descriptor d, and the
\* descriptor of every node of the tree builds the no-op validator.
C14_ValidationDisabled ==
    call.op = "wrap_validate_false"
    => /\ IsMeta(call.ret)
       /\ NoOpBelow(call.ret)

\* C15 Unsupported kind: wrap of a value that is no map, sequence, set,
\* tuple, boolean, integer, float, text or null raises the unsupported-type
\* error and returns no node, whatever the descriptor.
C15_UnsupportedKind ==
    call.op = "wrap_unsupported" => call.ret = Err("TypeError", "Unsupported type")

\* key names an entry of the container node n: a key of a map, an index or
\* an element of a sequence, an element of a set
PresentIn(n, key) ==
    CASE n.k = "MetaDict" -> Hashable(key) /\ DictHas(n, key)
      [] n.k = "MetaList" ->
            IF BaseKind(key) \in {"int", "bool"} THEN PyIndex(IndexVal(key), Len(n.v)) # 0
            ELSE \E i \in DOMAIN n.v : ElemEq(n.v[i], key)
      [] n.k = "MetaSet" -> Hashable(key) /\ \E y \in n.v : PyEq(y, key)
      [] OTHER -> FALSE
\* post is pre with the entry key names taken out and nothing else changed
RemovedExactly(pre, post, key) ==
    /\ post.k = pre.k
    /\ post.schema = pre.schema
    /\ CASE pre.k = "MetaDict" -> post = DictDel(pre, key)
         [] pre.k = "MetaList" ->
               IF BaseKind(key) \in {"int", "bool"}
               THEN post.v = SeqRemoveAt(pre.v, PyIndex(IndexVal(key), Len(pre.v)))
               ELSE \E i \in DOMAIN pre.v :
                       ElemEq(pre.v[i], key) /\ post.v = SeqRemoveAt(pre.v, i)
         [] OTHER -> /\ post.v = {y \in pre.v : ~PyEq(y, key)}
                     /\ Cardinality(post.v) = Cardinality(pre.v) - 1

\* C16 Removal does not re-validate: remove(key) and pop(key) of a key or
\* element the container holds return without error and leave the node as
\* it was less exactly that entry, whatever the node's descriptor.
C16_RemovalSucceeds ==
    (call.op \in {"remove", "pop"} /\ PresentIn(call.pre, call.args[1]))
    => /\ ~IsErr(call.ret)
       /\ RemovedExactly(call.pre, node, call.args[1])

\* C17 Tree-shaped ownership: after a child of a container has been put
\* into the container once more (by add, set or item assignment), no node
\* object occupies more than one slot.
C17_TreeOwnership ==
    (call.op \in {"add_child", "set_child", "__setitem___child"} /\ ~IsErr(call.ret))
    => Cardinality(LabelledSlots(call.ret)) <= 1

\* C18 Idempotent normalization: the normalizer applied to a descriptor it
\* returned gives that descriptor back.
C18_IdempotentNormalization ==
    call.op = "renormalize" => call.ret = call.args[1]

\* the members of a sum-type expression other than NoneType
NonNullMembers(u) == SelectSeq(u.v, LAMBDA a : a # TNoneType)

\* C19 Singleton sum collapse: a sum type with one member besides null
\* normalizes to what that member normalizes to, which is not what the
\* set-of-member expression normalizes to.
C19_SingletonSumCollapse ==
    (call.op = "normalize" /\ call.args[1].k = "Union" /\ Len(NonNullMembers(call.args[1])) = 1)
    => /\ call.ret = Invoke("_normalize_schema", <<NonNullMembers(call.args[1])[1]>>)
       /\ call.ret # Invoke("_normalize_schema", <<TSet(NonNullMembers(call.args[1])[1])>>)

\* some sum type in the descriptor d, at any depth, has a NoneType branch; a
\* sum type is a Union expression or the set the normalizer makes of one
RECURSIVE HasNullBranch(_)
HasNullBranch(d) ==
    CASE d.k = "set" -> TNoneType \in d.v \/ \E m \in d.v : HasNullBranch(m)
      [] d.k = "Union" -> \E i \in DOMAIN d.v : d.v[i] = TNoneType \/ HasNullBranch(d.v[i])
      [] d.k \in {"list", "tuple", "List", "Set", "Tuple", "Dict"} ->
            \E i \in DOMAIN d.v : HasNullBranch(d.v[i])
      [] d.k = "dict" ->
            \E i \in DOMAIN d.v : HasNullBranch(d.v[i][1]) \/ HasNullBranch(d.v[i][2])
      [] OTHER -> FALSE

\* C20 Null stripping: no sum type in a descriptor the normalizer returns
\* has a null branch, at any depth of the descriptor.
C20_NullStripping ==
    (call.op = "normalize" /\ ~IsErr(call.ret)) => ~HasNullBranch(call.ret)

\* C21 Stable branch order: the first branch resolution takes from a
\* normalized sum type is the first non-null branch of the declaration, so
\* the branch selected does not depend on the iteration order of a set.
C21_StableBranchOrder ==
    call.op = "resolve_sum"
    => /\ ~IsErr(call.ret)
       /\ call.ret.v = Invoke("_normalize_schema", <<NonNullMembers(call.args[1])[1]>>)

\* a declared key that is a key-pattern: a type, or a tuple of types
IsKeyPattern(k) == k.k = "type" \/ IsTypeTuple(k)
\* key is an instance of the key-pattern k
KeyIsInstance(k, key) ==
    IF k.k = "type" THEN IsInstance(key, k) ELSE \E i \in DOMAIN k.v : IsInstance(key, k.v[i])
\* the fields of the explicit map d declared under a literal key equal to key
LiteralFields(d, key) ==
    {i \in DOMAIN d.v : ~IsKeyPattern(d.v[i][1]) /\ PyEq(d.v[i][1], key)}
\* the fields of d declared under a key-pattern key is an instance of
PatternFields(d, key) ==
    {i \in DOMAIN d.v : IsKeyPattern(d.v[i][1]) /\ KeyIsInstance(d.v[i][1], key)}
\* the field of d the key resolves to: 0 when no declared key matches
ResolvedField(d, key) ==
    IF LiteralFields(d, key) # {} THEN Least(LiteralFields(d, key))
    ELSE IF PatternFields(d, key) # {} THEN Least(PatternFields(d, key))
    ELSE 0

\* C22 Explicit-map resolution: resolve returns the field descriptor of the
\* declared literal key equal to the key when there is one, and otherwise
\* that of the first declared key-pattern the key is an instance of.
C22_ExplicitMapResolution ==
    (call.op = "resolve_key" /\ ResolvedField(call.args[1], call.args[2]) # 0)
    => /\ ~IsErr(call.ret)
       /\ call.ret.v = call.args[1].v[ResolvedField(call.args[1], call.args[2])][2]

\* the item descriptor of a sequence or set descriptor, canonical
ItemOf(d) ==
    LET n == Invoke("_normalize_schema", <<d>>) IN
    IF n.k = "list" THEN n.v[1] ELSE CHOOSE m \in n.v : TRUE
IsItemDesc(d) == d.k \in {"list", "set", "List", "Set"}

\* C23 Sequence/set resolution: resolve on a sequence or set descriptor
\* returns the item descriptor for every index or value, also for no index
\* and for an index above zero; and the elements of a wrapped sequence or
\* set hold the item descriptor.
C23_ItemResolution ==
    /\ call.op = "resolve_item"
       => /\ ~IsErr(call.ret)
          /\ call.ret.v = ItemOf(call.args[1])
    /\ (call.op = "wrap" /\ IsItemDesc(call.args[2]) /\ ~IsErr(call.ret))
       => \A c \in Children(call.ret) : c.schema.v = ItemOf(call.args[2])

\* the items of a tuple descriptor, canonical, and whether it is variadic
ItemDescsOf(d) == Invoke("_normalize_schema", <<d>>).v
IsVariadic(d) == Len(d.v) > 0 /\ d.v[Len(d.v)] = Ell

\* C24 Tuple resolution: on a fixed tuple descriptor resolve with position i
\* returns the i-th item descriptor when 0 <= i < arity and Any otherwise;
\* on a variadic tuple descriptor it returns the item descriptor for every
\* position.
C24_TupleResolution ==
    call.op = "resolve_tuple"
    => LET d == call.args[1]
           i == call.args[2].v
       IN /\ ~IsErr(call.ret)
          /\ call.ret.v = IF IsVariadic(d) THEN ItemDescsOf(d)[1]
                          ELSE IF 0 <= i /\ i < Len(d.v) THEN ItemDescsOf(d)[i + 1]
                          ELSE AnyT

\* the calls of resolve
ResolveOps == {"resolve_key", "resolve_item", "resolve_tuple", "resolve_sum"}

\* C25 Permissive fallback: resolve raises for no descriptor and no key or
\* index; for a key no declared key of an explicit map matches it returns
\* the Any descriptor, and every value validates against that descriptor.
C25_PermissiveFallback ==
    call.op \in ResolveOps
    => /\ ~IsErr(call.ret)
       /\ (call.op = "resolve_key" /\ ResolvedField(call.args[1], call.args[2]) = 0)
          => /\ call.ret.v = AnyT
             /\ \A x \in ScalarValues \cup WrapValues :
                   ~IsErr(Invoke("validate_all", <<call.ret.v, x>>))

\* x is a value of the scalar type t itself
IsOfType(x, t) == t.k = "type" /\ x.k = t.v

\* C26 Coercion never fails: coerce_key_to_type(key, target_type) raises for
\* no key and no target type; it returns the value of target_type
\* constructed from key, or key itself when the construction fails.
\* Schema.coerce_key, which finds no target type in the normalized descriptor
\* a Schema holds, raises for no key either and returns the key unchanged.
C26_CoercionNeverFails ==
    /\ call.op = "coerce_key_to_type"
       => LET made == Invoke("Construct", <<call.args[2], call.args[1]>>) IN
          /\ ~IsErr(call.ret)
          /\ IF IsErr(made) THEN call.ret = call.args[1]
             ELSE call.ret = made /\ IsOfType(call.ret, call.args[2])
    /\ call.op = "coerce_key"
       => /\ ~IsErr(call.ret)
          /\ call.ret = call.args[1]
\* a key that cannot be made into the target type comes back unchanged
C26_Witness ==
    /\ call.op = "coerce_key_to_type"
    /\ call.args = <<SA, TInt>>
    /\ call.ret = SA

\* the default the descriptor d stands for
RECURSIVE DefaultOf(_)
DefaultOf(d) ==
    CASE d.k \in {"dict", "Dict"} -> PyDict(<<>>)
      [] d.k \in {"list", "List"} -> PyList(<<>>)
      [] d.k \in {"set", "Set"} -> PySet({})
      [] d.k \in {"tuple", "Tuple"} -> PyTuple(<<>>)
      [] d.k = "Union" -> DefaultOf(NonNullMembers(d)[1])
      [] d = TInt -> PyInt(0)
      [] d = TFloat -> PyFloat(0)
      [] d = TStr -> PyStr(<<>>)
      [] d = TBool -> PyBool(FALSE)
      [] OTHER -> PyNone

\* C27 Defaults: the default of a map, sequence, set or tuple descriptor is
\* the empty map, sequence, set or tuple, of a scalar descriptor its zero
\* value, of Any or an unknown descriptor null, and of a sum the default of
\* its first branch.
C27_Defaults ==
    call.op = "default_for" => call.ret = DefaultOf(call.args[1])

\* the calls that validate the node
IsNodeValidation == call.op \in { how \o "_node" : how \in NodeValidations }

C29_TupleImmutable ==
    call.op \in {"add_tuple", "remove_tuple", "pop_tuple", "set_tuple"}
    => /\ node = call.pre
       /\ call.op \in {"add_tuple", "pop_tuple"} => IsErr(call.ret)
       /\ call.op = "remove_tuple" => ~IsErr(call.ret)
       /\ call.op = "set_tuple" => ~IsErr(call.ret) /\ call.ret.k = "MetaTuple"

\* the keys of the map node n, as the objects they are
KeysOf(n) == { n.v[i][1] : i \in DOMAIN n.v }
\* the value the map node n holds under exactly the key k
HeldUnder(n, k) == Native(n.v[CHOOSE i \in DOMAIN n.v : n.v[i][1] = k][2])

\* C30 Digit keys: add(k, v) on a map node, k a text of digits only, stores
\* the entry under the integer int(k) whatever keys the descriptor declares,
\* and set(k, v) and self[k] = v store it under the text k itself.
C30_DigitKeys ==
    LET k == call.args[1]
        v == call.args[2]
        asInt == PyInt(DigitsVal(k.v)) IN
    /\ call.op = "add_entry" /\ ~IsErr(call.ret)
       => /\ asInt \in KeysOf(node)
          /\ HeldUnder(node, asInt) = v
          /\ KeysOf(node) = KeysOf(call.pre) \cup {asInt}
    /\ call.op \in {"set_entry", "__setitem___entry"} /\ ~IsErr(call.ret)
       => /\ k \in KeysOf(node)
          /\ HeldUnder(node, k) = v
          /\ KeysOf(node) = KeysOf(call.pre) \cup {k}
\* add of a text of digits to a map whose keys are declared text
C30_Witness ==
    /\ call.op = "add_entry"
    /\ ~IsErr(call.ret)
    /\ call.args[1] = SOne
    /\ desc = Dict1(TStr, PyList(<<TInt>>))
    /\ PyInt(1) \in KeysOf(node)
====
